---- MODULE Spec2Model ----
(***************************************************************************)
(* Mini SCADA HMI dashboard: the global store (data.js) with its bridge    *)
(* functions (utils.js, handlers.js), the reducer layer (state.js) and the *)
(* metrics calculators.                                                    *)
(*                                                                         *)
(* Time is in milliseconds on a local-time axis whose origin is a local    *)
(* midnight; days are 24 h long (no daylight-saving change), so            *)
(* Date.setHours(0,0,0,0) is t - (t % MS_PER_DAY).  Arithmetic on          *)
(* durations is exact: a number of minutes x is held as the integer        *)
(* x * MS_PER_MINUTE wherever the code keeps a fraction.  Number.NaN is    *)
(* the value NaN below; every comparison with it is false and every sum    *)
(* with it is NaN, as in JavaScript.  All Date.now() reads of one handler  *)
(* return the same instant.                                                *)
(***************************************************************************)
EXTENDS Integers, Sequences, FiniteSets, TLC

\* ------------------------------------------------------------------------
\* Program constants (config/constants)
\* ------------------------------------------------------------------------
MS_PER_MINUTE == 60000
MS_PER_HOUR == 3600000
MS_PER_DAY == 86400000
MIN_UNITS_PER_MIN == 10
MAX_UNITS_PER_MIN == 60

\* SIMULATION.MAX_EVENTS is 100 in the source; the model keeps the cap as a
\* parameter of small size so that the truncation is exercised.
MAX_EVENTS == 5

STATUS_RUN == "RUN"
STATUS_IDLE == "IDLE"
STATUS_DOWN == "DOWN"
MACHINE_STATUS == {STATUS_RUN, STATUS_IDLE, STATUS_DOWN}

SEVERITY_INFO == "INFO"
SEVERITY_WARNING == "WARN"
SEVERITY_ALARM == "ALARM"
SEVERITY == {SEVERITY_INFO, SEVERITY_WARNING, SEVERITY_ALARM}

\* ------------------------------------------------------------------------
\* Bounds of the model
\* ------------------------------------------------------------------------
\* number of handler runs (user actions, timer callbacks, clock steps) after
\* page load
MaxSteps == 3
\* longest list handed to a pure function
MaxLen == 2

\* ------------------------------------------------------------------------
\* JavaScript numbers
\* ------------------------------------------------------------------------
NaN == -2000000000
\* null, where the code keeps a number or null
null == -1
isNaN(x) == x = NaN
\* a >= b
Gte(a, b) == ~isNaN(a) /\ ~isNaN(b) /\ a >= b
\* a <= b
Lte(a, b) == ~isNaN(a) /\ ~isNaN(b) /\ a <= b
\* a + b
Plus(a, b) == IF isNaN(a) \/ isNaN(b) THEN NaN ELSE a + b
\* a - b
Minus(a, b) == IF isNaN(a) \/ isNaN(b) THEN NaN ELSE a - b

Max(S) == CHOOSE x \in S : \A y \in S : y <= x
Min2(a, b) == IF a < b THEN a ELSE b

\* arr.slice(0, n), n >= 0
take(n, arr) == SubSeq(arr, 1, Min2(n, Len(arr)))

\* arr.filter(e => P(e))
RECURSIVE filter(_, _)
filter(P(_), arr) ==
    IF arr = <<>> THEN <<>>
    ELSE (IF P(Head(arr)) THEN <<Head(arr)>> ELSE <<>>) \o filter(P, Tail(arr))

\* { ...object, ...updates }
spread(object, updates) ==
    [field \in (DOMAIN object) \cup (DOMAIN updates) |->
        IF field \in DOMAIN updates THEN updates[field] ELSE object[field]]

\* new Date(t).setHours(0, 0, 0, 0)
todayStartOf(currentTime) == currentTime - (currentTime % MS_PER_DAY)

\* ------------------------------------------------------------------------
\* Seed data (data.js) and the form inputs of the model
\* ------------------------------------------------------------------------
\* page-load instant: 00:45 of day 1, so that the seed downtime entry starts
\* before midnight and ends after it
LoadTimes == {MS_PER_DAY + 45 * MS_PER_MINUTE}

\* the seed machines have no unitsPerMin until the first tick
seedMachines(t) ==
    << [id |-> 1, name |-> "Machine A", status |-> STATUS_RUN,
        lastHeartbeat |-> t, healthScore |-> 95],
       [id |-> 2, name |-> "Machine B", status |-> STATUS_IDLE,
        lastHeartbeat |-> t, healthScore |-> 88],
       [id |-> 3, name |-> "Machine C", status |-> STATUS_DOWN,
        lastHeartbeat |-> t - 300000, healthScore |-> 70] >>

seedEvents(t) ==
    << [id |-> 1, machineId |-> 1, timestamp |-> t - MS_PER_HOUR,
        severity |-> SEVERITY_INFO, message |-> <<"Started production">>,
        acknowledged |-> FALSE],
       [id |-> 2, machineId |-> 2, timestamp |-> t - (MS_PER_HOUR \div 2),
        severity |-> SEVERITY_WARNING, message |-> <<"Low throughput">>,
        acknowledged |-> FALSE],
       [id |-> 3, machineId |-> 3, timestamp |-> t - (MS_PER_HOUR \div 4),
        severity |-> SEVERITY_ALARM, message |-> <<"Motor failure">>,
        acknowledged |-> FALSE] >>

seedDowntimeEntries(t) ==
    << [id |-> 1, machineId |-> 3, start |-> t - MS_PER_HOUR,
        end |-> t - (MS_PER_HOUR \div 2), reason |-> "Maintenance",
        notes |-> "Replaced belt"] >>

\* values of the datetime-local inputs of the downtime form
FormDates == {"", "1970-01-02T01:00", "1970-01-02T01:10"}

\* new Date(str).getTime()
DateGetTime(str) ==
    CASE str = "1970-01-02T01:00" -> MS_PER_DAY + MS_PER_HOUR
      [] str = "1970-01-02T01:10" -> MS_PER_DAY + MS_PER_HOUR + 10 * MS_PER_MINUTE
      [] OTHER -> NaN

\* ------------------------------------------------------------------------
\* Global store (data.js) and browser state
\* ------------------------------------------------------------------------
VARIABLES
    machines,               \* data.js machines
    events,                 \* data.js events
    downtimeEntries,        \* data.js downtimeEntries
    alarmsLast24h,          \* data.js alarmsLast24h
    machinesDown,           \* data.js machinesDown
    downtimeMinutesToday,   \* data.js downtimeMinutesToday, times MS_PER_MINUTE
    simulationRunning,      \* data.js simulationRunning
    simulationInterval,     \* data.js simulationInterval (timer handle or null)
    lastSimulated,          \* data.js lastSimulated
    timers,                 \* handles of the interval timers that are armed
    locationHash,           \* window.location.hash
    currentView,            \* router currentView
    nextTimerId,            \* the handle the next setInterval returns
    now,                    \* the clock read by Date.now()
    createdEventIds,        \* ids handed out by createEvent, in order (history)
    submitted,              \* form values of the submission the last handler took
    alertMessage,           \* the alert() the last handler raised, "none" if none
    formReset,              \* whether the last handler called form.reset()
    steps,                  \* number of handler runs since page load
    appState,               \* the application state threaded through rootReducer
    lastAction,             \* the action rootReducer was called with last
    reducedAt,              \* Date.now() during the last rootReducer call
    fnName,                 \* pure function under evaluation
    fnInput,                \* its arguments
    fnOutput,               \* its result, once fnDone
    fnDone,                 \* whether the function has been applied
    commissioningChecklist, \* data.js commissioningChecklist
    localStorageChecklist,  \* the text stored under STORAGE_KEYS.CHECKLIST
    checklistChanged,       \* whether a handler has changed the checklist (history)
    checklistCall,          \* the checklist handler that ran last, with its arguments
    timeoutId,              \* debounce: the timeoutId of the closure
    timeouts,               \* the setTimeout timers that are armed
    filterCalls,            \* calls of filterRunbooks: time and arguments (history)
    filterRuns              \* runs of the runbook filter: time, arguments (history)

\* the global store and the browser state around it
storeVars == <<machines, events, downtimeEntries, alarmsLast24h, machinesDown,
               downtimeMinutesToday, simulationRunning, simulationInterval,
               lastSimulated, timers, nextTimerId, locationHash, currentView,
               createdEventIds, submitted, alertMessage, formReset>>
\* the reducer layer's state
reducerVars == <<appState, lastAction, reducedAt>>
\* the evaluation of one pure function
pureVars == <<fnName, fnInput, fnOutput, fnDone>>

\* the commissioning checklist and its persisted copy
checklistVars == <<commissioningChecklist, localStorageChecklist, checklistChanged>>
\* the same together with the record of the last handler
checklistFrame == <<checklistVars, checklistCall>>
\* the runbook search
debounceVars == <<timeoutId, timeouts, filterCalls, filterRuns>>

vars == <<storeVars, now, steps, reducerVars, pureVars, checklistFrame, debounceVars>>

\* ------------------------------------------------------------------------
\* Metrics (utils.js)
\* ------------------------------------------------------------------------
\* reduce((sum, entry) => sum + (entry.end - entry.start) / MS_PER_MINUTE, 0),
\* as a number of milliseconds
RECURSIVE sumDurations(_)
sumDurations(entries) ==
    IF entries = <<>> THEN 0
    ELSE Plus(Minus(Head(entries).end, Head(entries).start),
              sumDurations(Tail(entries)))

\* Math.floor(ms / MS_PER_MINUTE)
floorMinutes(ms) == IF isNaN(ms) THEN NaN ELSE ms \div MS_PER_MINUTE

calculateDowntimeToday(entries, currentTime) ==
    LET todayStart == todayStartOf(currentTime)
        endsToday(entry) == Gte(entry.end, todayStart)
    IN  sumDurations(filter(endsToday, entries))

computeMetrics(evs, ms, entries, currentTime) ==
    LET last24h == currentTime - MS_PER_DAY
        recentAlarm(event) ==
            Gte(event.timestamp, last24h) /\ event.severity = SEVERITY_ALARM
        isDown(machine) == machine.status = STATUS_DOWN
    IN  [alarmsLast24h |-> Len(filter(recentAlarm, evs)),
         machinesDown |-> Len(filter(isDown, ms)),
         downtimeMinutesToday |-> calculateDowntimeToday(entries, currentTime)]

\* updateMetrics(), reading the store as it is after the caller's writes
updateMetrics(evs, ms, entries) ==
    LET metrics == computeMetrics(evs, ms, entries, now)
    IN  /\ alarmsLast24h' = metrics.alarmsLast24h
        /\ machinesDown' = metrics.machinesDown
        /\ downtimeMinutesToday' = metrics.downtimeMinutesToday

\* ------------------------------------------------------------------------
\* Events (utils.js)
\* ------------------------------------------------------------------------
Ids(list) == {list[i].id : i \in 1..Len(list)}

\* createEvent numbering a new event by the length of the list
createEventCountingIds(currentEvents, machineId, severity, message, timestamp) ==
    [id |-> Len(currentEvents) + 1, machineId |-> machineId, timestamp |-> timestamp,
     severity |-> severity, message |-> message, acknowledged |-> FALSE]

createEvent(currentEvents, machineId, severity, message, timestamp) ==
    LET maxId == IF Len(currentEvents) > 0 THEN Max(Ids(currentEvents)) ELSE 0
    IN  [id |-> maxId + 1, machineId |-> machineId, timestamp |-> timestamp,
         severity |-> severity, message |-> message, acknowledged |-> FALSE]

\* addEventImmutable without the slice
addEventUncapped(currentEvents, newEvent, maxEvents) ==
    <<newEvent>> \o currentEvents

addEventImmutable(currentEvents, newEvent, maxEvents) ==
    take(maxEvents, <<newEvent>> \o currentEvents)

\* the events array after generateEvent(machineId, severity, message)
eventsAfterGenerate(evs, machineId, severity, message) ==
    addEventImmutable(evs, createEvent(evs, machineId, severity, message, now),
                      MAX_EVENTS)

\* acknowledgeEventImmutable flipping the flag instead of setting it
acknowledgeEventFlipping(currentEvents, eventId) ==
    [i \in 1..Len(currentEvents) |->
        IF currentEvents[i].id = eventId
        THEN [currentEvents[i] EXCEPT !.acknowledged = ~currentEvents[i].acknowledged]
        ELSE currentEvents[i]]

acknowledgeEventImmutable(currentEvents, eventId) ==
    [i \in 1..Len(currentEvents) |->
        IF currentEvents[i].id = eventId
        THEN [currentEvents[i] EXCEPT !.acknowledged = TRUE]
        ELSE currentEvents[i]]

\* currentEvents.find(evt => evt.id === eventId): its index, 0 when absent
findEventIndex(currentEvents, eventId) ==
    IF \E i \in 1..Len(currentEvents) : currentEvents[i].id = eventId
    THEN CHOOSE i \in 1..Len(currentEvents) :
            /\ currentEvents[i].id = eventId
            /\ \A j \in 1..(i - 1) : currentEvents[j].id # eventId
    ELSE 0

\* ------------------------------------------------------------------------
\* Downtime (utils.js)
\* ------------------------------------------------------------------------
createDowntimeEntry(currentEntries, machineId, reason, notes, start, end) ==
    LET maxId == IF Len(currentEntries) > 0 THEN Max(Ids(currentEntries)) ELSE 0
    IN  [id |-> maxId + 1, machineId |-> machineId, start |-> start,
         end |-> end, reason |-> reason, notes |-> notes]

\* the downtimeEntries array after addDowntimeEntry(...)
\* addDowntimeEntry putting the new entry in front
entriesAfterAddInFront(entries, machineId, reason, notes, startStr, endStr) ==
    << createDowntimeEntry(entries, machineId, reason, notes,
                           DateGetTime(startStr), DateGetTime(endStr)) >> \o entries

entriesAfterAdd(entries, machineId, reason, notes, startStr, endStr) ==
    entries \o << createDowntimeEntry(entries, machineId, reason, notes,
                                      DateGetTime(startStr), DateGetTime(endStr)) >>

\* ------------------------------------------------------------------------
\* Simulation (utils.js)
\* ------------------------------------------------------------------------
\* outcomes of the two Math.random() draws that decide a status change:
\* "keep" is randomValue >= STATUS_CHANGE_PROBABILITY, a status is the one drawn
Rolls == {"keep"} \cup MACHINE_STATUS
\* outcomes of Math.floor(Math.random() * range): 0 .. range - 1
UnitDraws == 0..(MAX_UNITS_PER_MIN - MIN_UNITS_PER_MIN - 1)
\* the outcome the store specification draws for every machine
StoreUnitDraws == {MAX_UNITS_PER_MIN - MIN_UNITS_PER_MIN - 1}

statusChanges(machine, roll) == roll \in MACHINE_STATUS /\ roll # machine.status

\* the machine after a tick that forgets the MIN_UNITS_PER_MIN offset
tickMachineWithoutOffset(machine, currentTime, roll, draw) ==
    LET beat == spread(machine, [lastHeartbeat |-> currentTime])
        updated == IF statusChanges(machine, roll)
                   THEN spread(beat, [status |-> roll]) ELSE beat
    IN  spread(updated, [unitsPerMin |-> draw])

tickMachine(machine, currentTime, roll, draw) ==
    LET beat == spread(machine, [lastHeartbeat |-> currentTime])
        updated == IF statusChanges(machine, roll)
                   THEN spread(beat, [status |-> roll]) ELSE beat
    IN  spread(updated, [unitsPerMin |-> draw + MIN_UNITS_PER_MIN])

\* the event of a status change with the severities of IDLE and RUN exchanged
statusEventExchanged(machine, newStatus) ==
    IF newStatus = STATUS_DOWN
    THEN [machineId |-> machine.id, severity |-> SEVERITY_ALARM,
          message |-> <<machine.name, " went down">>]
    ELSE IF newStatus = STATUS_IDLE
    THEN [machineId |-> machine.id, severity |-> SEVERITY_INFO,
          message |-> <<machine.name, " idle">>]
    ELSE [machineId |-> machine.id, severity |-> SEVERITY_WARNING,
          message |-> <<machine.name, " running">>]

statusEvent(machine, newStatus) ==
    IF newStatus = STATUS_DOWN
    THEN [machineId |-> machine.id, severity |-> SEVERITY_ALARM,
          message |-> <<machine.name, " went down">>]
    ELSE IF newStatus = STATUS_IDLE
    THEN [machineId |-> machine.id, severity |-> SEVERITY_WARNING,
          message |-> <<machine.name, " idle">>]
    ELSE [machineId |-> machine.id, severity |-> SEVERITY_INFO,
          message |-> <<machine.name, " running">>]

\* generatedEvents, in the order of the machines
RECURSIVE tickEvents(_, _, _)
tickEvents(currentMachines, rolls, i) ==
    IF i > Len(currentMachines) THEN <<>>
    ELSE (IF statusChanges(currentMachines[i], rolls[i])
          THEN <<statusEvent(currentMachines[i], rolls[i])>> ELSE <<>>)
         \o tickEvents(currentMachines, rolls, i + 1)

simulateTick(currentMachines, currentTime, rolls, draws) ==
    [machines |-> [i \in 1..Len(currentMachines) |->
                      tickMachine(currentMachines[i], currentTime, rolls[i], draws[i])],
     events |-> tickEvents(currentMachines, rolls, 1)]

\* tickResult.events.forEach(evt => generateEvent(...)): the events array after it
RECURSIVE eventsAfterGenerateAll(_, _)
eventsAfterGenerateAll(evs, generated) ==
    IF generated = <<>> THEN evs
    ELSE eventsAfterGenerateAll(
            eventsAfterGenerate(evs, Head(generated).machineId,
                                Head(generated).severity, Head(generated).message),
            Tail(generated))

\* ------------------------------------------------------------------------
\* Router and rendering
\* ------------------------------------------------------------------------
VIEW_OVERVIEW == "overview"
VIEW_MACHINE == "machine"
VIEW_RUNBOOKS == "runbooks"
VIEW_COMMISSIONING == "commissioning"
VIEW_HELP == "help"
VIEWS == {VIEW_OVERVIEW, VIEW_MACHINE, VIEW_RUNBOOKS, VIEW_COMMISSIONING, VIEW_HELP}

startsWith(str, prefix) ==
    Len(str) >= Len(prefix) /\ SubSeq(str, 1, Len(prefix)) = prefix

\* URL fragments are sequences of characters
HASH_ROOT == <<"#", "/">>
HASH_MACHINE_PREFIX == <<"#", "/", "m", "a", "c", "h", "i", "n", "e", "/">>
HASH_RUNBOOKS == <<"#", "/", "r", "u", "n", "b", "o", "o", "k", "s">>
HASH_COMMISSIONING ==
    <<"#", "/", "c", "o", "m", "m", "i", "s", "s", "i", "o", "n", "i", "n", "g">>
HASH_HELP == <<"#", "/", "h", "e", "l", "p">>

\* parseRoute matching every route by its prefix
parseRouteByPrefix(hash) ==
    IF startsWith(hash, HASH_MACHINE_PREFIX) THEN VIEW_MACHINE
    ELSE IF startsWith(hash, HASH_RUNBOOKS) THEN VIEW_RUNBOOKS
    ELSE IF startsWith(hash, HASH_COMMISSIONING) THEN VIEW_COMMISSIONING
    ELSE IF startsWith(hash, HASH_HELP) THEN VIEW_HELP
    ELSE VIEW_OVERVIEW

parseRoute(hash) ==
    IF startsWith(hash, HASH_MACHINE_PREFIX) THEN VIEW_MACHINE
    ELSE IF hash = HASH_RUNBOOKS THEN VIEW_RUNBOOKS
    ELSE IF hash = HASH_COMMISSIONING THEN VIEW_COMMISSIONING
    ELSE IF hash = HASH_HELP THEN VIEW_HELP
    ELSE VIEW_OVERVIEW

\* fragments the store specification navigates to
StoreHashes == {HASH_ROOT, HASH_MACHINE_PREFIX \o <<"3">>}

\* renderCurrentView(): renderOverview() calls updateMetrics(), the other
\* views leave the store alone
renderCurrentView(view, evs, ms, entries) ==
    IF view = VIEW_OVERVIEW
    THEN updateMetrics(evs, ms, entries)
    ELSE UNCHANGED <<alarmsLast24h, machinesDown, downtimeMinutesToday>>

\* ------------------------------------------------------------------------
\* Input handling (security utilities)
\* ------------------------------------------------------------------------
validateMachineId(id) ==
    IF isNaN(id) \/ id < 0 \/ id > 1000 THEN null ELSE id

\* machine ids, reasons and notes submitted with the downtime form
FormMachineIds == {3}
FormReasons == {"Failure"}
FormNotes == {"Notes"}

\* input.replace(/<[^>]*>/g, '').trim() on the texts the model submits
sanitizeInput(input) ==
    CASE input = " Notes " -> "Notes"
      [] input = " Guards in place " -> "Guards in place"
      [] input = "<b>Notes</b>" -> "Notes"
      [] OTHER -> input

\* ------------------------------------------------------------------------
\* Handlers on the global store
\* ------------------------------------------------------------------------
maxEventIdOf(evs) == IF Len(evs) > 0 THEN Max(Ids(evs)) ELSE 0

simVars == <<simulationRunning, simulationInterval, lastSimulated, timers, nextTimerId>>
metricVars == <<alarmsLast24h, machinesDown, downtimeMinutesToday>>
routeVars == <<locationHash, currentView>>

\* utils.js generateEvent
generateEvent(machineId, severity, message) ==
    /\ events' = eventsAfterGenerate(events, machineId, severity, message)
    /\ updateMetrics(events', machines, downtimeEntries)
    /\ createdEventIds' =
           Append(createdEventIds,
                  createEvent(events, machineId, severity, message, now).id)
    /\ UNCHANGED <<machines, downtimeEntries, simVars, routeVars, now>>

\* utils.js acknowledgeAlarm
acknowledgeAlarm(eventId) ==
    LET idx == findEventIndex(events, eventId)
    IN  IF idx # 0
        THEN LET event == events[idx]
                 acked == acknowledgeEventImmutable(events, eventId)
                 message == <<"Alarm acknowledged: ">> \o event.message
             IN  /\ events' = eventsAfterGenerate(acked, event.machineId,
                                                  SEVERITY_INFO, message)
                 /\ updateMetrics(events', machines, downtimeEntries)
                 /\ createdEventIds' =
                        Append(createdEventIds,
                               createEvent(acked, event.machineId, SEVERITY_INFO,
                                           message, now).id)
                 /\ UNCHANGED <<machines, downtimeEntries, simVars, routeVars, now>>
        ELSE UNCHANGED <<machines, events, downtimeEntries, metricVars, simVars,
                         routeVars, now, createdEventIds>>

\* utils.js addDowntimeEntry followed by the caller's renderCurrentView()
addDowntimeEntry(machineId, reason, notes, startStr, endStr) ==
    /\ downtimeEntries' =
           entriesAfterAdd(downtimeEntries, machineId, reason, notes, startStr, endStr)
    /\ updateMetrics(events, machines, downtimeEntries')
    /\ UNCHANGED <<machines, events, simVars, routeVars, now, createdEventIds>>

\* a handler that takes no form submission, raises no alert, resets no form
noDialog ==
    /\ submitted' = <<>>
    /\ alertMessage' = "none"
    /\ formReset' = FALSE

\* handlers.js addDowntime (lines 54-97)
addDowntime(machineId, reason, notes, start, end) ==
    LET validMachineId == validateMachineId(machineId)
        startTime == DateGetTime(start)
        endTime == DateGetTime(end)
        rejected(message) ==
            /\ alertMessage' = message
            /\ formReset' = FALSE
            /\ UNCHANGED <<machines, events, downtimeEntries, metricVars, simVars,
                           routeVars, now, createdEventIds>>
    IN  /\ submitted' = <<start, end>>
        /\ IF validMachineId = null THEN rejected("Error: Invalid machine ID")
           ELSE IF isNaN(startTime) \/ isNaN(endTime)
           THEN rejected("Error: Please enter valid start and end dates")
           ELSE IF Lte(endTime, startTime)
           THEN rejected("Error: End time must be after start time")
           ELSE /\ addDowntimeEntry(validMachineId, sanitizeInput(reason),
                                    sanitizeInput(notes), start, end)
                /\ alertMessage' = "none"
                /\ formReset' = TRUE

\* handlers.js addDowntime (lines 495-505)
addDowntime2(machineId, reason, notes, start, end) ==
    /\ submitted' = <<start, end>>
    /\ addDowntimeEntry(machineId, reason, notes, start, end)
    /\ alertMessage' = "none"
    /\ formReset' = TRUE

\* ids handed out by the generateEvent calls of one tick
RECURSIVE idsAfterGenerateAll(_, _)
idsAfterGenerateAll(evs, generated) ==
    IF generated = <<>> THEN <<>>
    ELSE LET first == Head(generated)
         IN  <<createEvent(evs, first.machineId, first.severity, first.message, now).id>>
             \o idsAfterGenerateAll(
                    eventsAfterGenerate(evs, first.machineId, first.severity,
                                        first.message),
                    Tail(generated))

\* utils.js startSimulation
startSimulation ==
    /\ simulationRunning' = TRUE
    /\ lastSimulated' = now
    /\ renderCurrentView(currentView, events, machines, downtimeEntries)
    /\ simulationInterval' = nextTimerId
    /\ timers' = timers \cup {nextTimerId}
    /\ nextTimerId' = nextTimerId + 1
    /\ UNCHANGED <<machines, events, downtimeEntries, routeVars, now, createdEventIds>>

\* utils.js stopSimulation
stopSimulation ==
    /\ simulationRunning' = FALSE
    /\ timers' = timers \ {simulationInterval}
    /\ renderCurrentView(currentView, events, machines, downtimeEntries)
    /\ UNCHANGED <<machines, events, downtimeEntries, simulationInterval,
                   lastSimulated, nextTimerId, routeVars, now, createdEventIds>>

\* the tick callback without its generateEvent calls' updateMetrics()
simulationTickStaleMetrics(handle, rolls, draws) ==
    /\ handle \in timers
    /\ LET tickResult == simulateTick(machines, now, rolls, draws)
       IN  /\ machines' = tickResult.machines
           /\ events' = eventsAfterGenerateAll(events, tickResult.events)
           /\ UNCHANGED metricVars
           /\ createdEventIds' =
                  createdEventIds \o idsAfterGenerateAll(events, tickResult.events)
    /\ lastSimulated' = now
    /\ UNCHANGED <<downtimeEntries, simulationRunning, simulationInterval, timers,
                   nextTimerId, routeVars, now>>

\* the setInterval callback of startSimulation, run for the armed timer handle
simulationTick(handle, rolls, draws) ==
    /\ handle \in timers
    /\ LET tickResult == simulateTick(machines, now, rolls, draws)
       IN  /\ machines' = tickResult.machines
           /\ events' = eventsAfterGenerateAll(events, tickResult.events)
           /\ IF tickResult.events # <<>>
              THEN updateMetrics(events', machines', downtimeEntries)
              ELSE UNCHANGED metricVars
           /\ createdEventIds' =
                  createdEventIds \o idsAfterGenerateAll(events, tickResult.events)
    /\ lastSimulated' = now
    /\ UNCHANGED <<downtimeEntries, simulationRunning, simulationInterval, timers,
                   nextTimerId, routeVars, now>>

\* the hashchange listener
hashchange(hash) ==
    /\ hash # locationHash
    /\ locationHash' = hash
    /\ currentView' = parseRoute(hash)
    /\ renderCurrentView(currentView', events, machines, downtimeEntries)
    /\ UNCHANGED <<machines, events, downtimeEntries, simVars, now, createdEventIds>>

\* time passes between two handlers
ClockStep == MS_PER_DAY \div 2

advanceClock == now' = now + ClockStep

\* ------------------------------------------------------------------------
\* Reducer layer (state.js)
\* ------------------------------------------------------------------------
ADD_EVENT == "ADD_EVENT"
ACKNOWLEDGE_EVENT == "ACKNOWLEDGE_EVENT"
UPDATE_MACHINE == "UPDATE_MACHINE"
SET_MACHINE_STATUS == "SET_MACHINE_STATUS"
ADD_DOWNTIME == "ADD_DOWNTIME"
START_SIMULATION == "START_SIMULATION"
STOP_SIMULATION == "STOP_SIMULATION"
TICK_SIMULATION == "TICK_SIMULATION"
TOGGLE_CHECKLIST_ITEM == "TOGGLE_CHECKLIST_ITEM"
LOAD_CHECKLIST == "LOAD_CHECKLIST"
UPDATE_METRICS == "UPDATE_METRICS"

createAddEventAction(machineId, severity, message, timestamp) ==
    [type |-> ADD_EVENT,
     payload |-> [machineId |-> machineId, severity |-> severity,
                  message |-> message, timestamp |-> timestamp]]

createAcknowledgeEventAction(eventId) ==
    [type |-> ACKNOWLEDGE_EVENT, payload |-> [eventId |-> eventId]]

createUpdateMachineAction(machineId, updates) ==
    [type |-> UPDATE_MACHINE, payload |-> [machineId |-> machineId, updates |-> updates]]

createSetMachineStatusAction(machineId, status) ==
    [type |-> SET_MACHINE_STATUS, payload |-> [machineId |-> machineId, status |-> status]]

createAddDowntimeAction(machineId, reason, notes, start, end) ==
    [type |-> ADD_DOWNTIME,
     payload |-> [machineId |-> machineId, reason |-> reason, notes |-> notes,
                  start |-> start, end |-> end]]

createToggleChecklistAction(section, itemName) ==
    [type |-> TOGGLE_CHECKLIST_ITEM,
     payload |-> [section |-> section, itemName |-> itemName]]

createTickSimulationAction(timestamp) ==
    [type |-> TICK_SIMULATION, payload |-> [timestamp |-> timestamp]]

\* eventsReducer numbering a new event by the length of the list
eventsReducerCountingIds(evs, action, maxEvents) ==
    CASE action.type = ADD_EVENT ->
            LET newEvent ==
                    [id |-> Len(evs) + 1,
                     machineId |-> action.payload.machineId,
                     timestamp |-> action.payload.timestamp,
                     severity |-> action.payload.severity,
                     message |-> action.payload.message,
                     acknowledged |-> FALSE]
            IN  take(maxEvents, <<newEvent>> \o evs)
      [] action.type = ACKNOWLEDGE_EVENT ->
            [i \in 1..Len(evs) |->
                IF evs[i].id = action.payload.eventId
                THEN [evs[i] EXCEPT !.acknowledged = TRUE]
                ELSE evs[i]]
      [] OTHER -> evs

eventsReducer(evs, action, maxEvents) ==
    CASE action.type = ADD_EVENT ->
            LET newEvent ==
                    [id |-> IF Len(evs) > 0 THEN Max(Ids(evs)) + 1 ELSE 1,
                     machineId |-> action.payload.machineId,
                     timestamp |-> action.payload.timestamp,
                     severity |-> action.payload.severity,
                     message |-> action.payload.message,
                     acknowledged |-> FALSE]
            IN  take(maxEvents, <<newEvent>> \o evs)
      [] action.type = ACKNOWLEDGE_EVENT ->
            [i \in 1..Len(evs) |->
                IF evs[i].id = action.payload.eventId
                THEN [evs[i] EXCEPT !.acknowledged = TRUE]
                ELSE evs[i]]
      [] OTHER -> evs

\* machinesReducer stamping the heartbeat of an event's machine on ADD_EVENT
machinesReducerStampingOnEvent(ms, action) ==
    CASE action.type = UPDATE_MACHINE ->
            [i \in 1..Len(ms) |->
                IF ms[i].id = action.payload.machineId
                THEN spread(ms[i], action.payload.updates)
                ELSE ms[i]]
      [] action.type = SET_MACHINE_STATUS ->
            [i \in 1..Len(ms) |->
                IF ms[i].id = action.payload.machineId
                THEN [ms[i] EXCEPT !.status = action.payload.status]
                ELSE ms[i]]
      [] action.type \in {TICK_SIMULATION, ADD_EVENT} ->
            [i \in 1..Len(ms) |->
                [ms[i] EXCEPT !.lastHeartbeat = action.payload.timestamp]]
      [] OTHER -> ms

machinesReducer(ms, action) ==
    CASE action.type = UPDATE_MACHINE ->
            [i \in 1..Len(ms) |->
                IF ms[i].id = action.payload.machineId
                THEN spread(ms[i], action.payload.updates)
                ELSE ms[i]]
      [] action.type = SET_MACHINE_STATUS ->
            [i \in 1..Len(ms) |->
                IF ms[i].id = action.payload.machineId
                THEN [ms[i] EXCEPT !.status = action.payload.status]
                ELSE ms[i]]
      [] action.type = TICK_SIMULATION ->
            [i \in 1..Len(ms) |->
                [ms[i] EXCEPT !.lastHeartbeat = action.payload.timestamp]]
      [] OTHER -> ms

downtimeReducer(entries, action) ==
    CASE action.type = ADD_DOWNTIME ->
            LET newEntry ==
                    [id |-> IF Len(entries) > 0 THEN Max(Ids(entries)) + 1 ELSE 1,
                     machineId |-> action.payload.machineId,
                     start |-> action.payload.start,
                     end |-> action.payload.end,
                     reason |-> action.payload.reason,
                     notes |-> action.payload.notes]
            IN  entries \o <<newEntry>>
      [] OTHER -> entries

\* checklistReducer checking the named item instead of flipping it
checklistReducerChecking(checklist, action) ==
    CASE action.type = TOGGLE_CHECKLIST_ITEM ->
            LET section == action.payload.section
                itemName == action.payload.itemName
            IN  IF section \notin DOMAIN checklist THEN checklist
                ELSE [checklist EXCEPT ![section] =
                        [i \in 1..Len(checklist[section]) |->
                            IF checklist[section][i].item = itemName
                            THEN [checklist[section][i] EXCEPT !.checked = TRUE]
                            ELSE checklist[section][i]]]
      [] action.type = LOAD_CHECKLIST -> action.payload.checklist
      [] OTHER -> checklist

\* a checklist is a function from its section names to sequences of items
checklistReducer(checklist, action) ==
    CASE action.type = TOGGLE_CHECKLIST_ITEM ->
            LET section == action.payload.section
                itemName == action.payload.itemName
            IN  IF section \notin DOMAIN checklist THEN checklist
                ELSE [checklist EXCEPT ![section] =
                        [i \in 1..Len(checklist[section]) |->
                            IF checklist[section][i].item = itemName
                            THEN [checklist[section][i] EXCEPT
                                    !.checked = ~checklist[section][i].checked]
                            ELSE checklist[section][i]]]
      [] action.type = LOAD_CHECKLIST -> action.payload.checklist
      [] OTHER -> checklist

\* handlers.js toggleChecklistItemImmutable
toggleChecklistItemImmutable(checklist, section, itemName) ==
    IF section \notin DOMAIN checklist THEN checklist
    ELSE [checklist EXCEPT ![section] =
            [i \in 1..Len(checklist[section]) |->
                IF checklist[section][i].item = itemName
                THEN [checklist[section][i] EXCEPT
                        !.checked = ~checklist[section][i].checked]
                ELSE checklist[section][i]]]

simulationReducer(simulation, action, dateNow) ==
    CASE action.type = START_SIMULATION ->
            [simulation EXCEPT !.running = TRUE, !.lastTick = dateNow]
      [] action.type = STOP_SIMULATION -> [simulation EXCEPT !.running = FALSE]
      [] action.type = TICK_SIMULATION ->
            [simulation EXCEPT !.lastTick = action.payload.timestamp]
      [] OTHER -> simulation

\* calculateMetrics counting only the downtime that has ended by currentTime
calculateMetricsEndedSoFar(evs, ms, entries, currentTime) ==
    LET last24h == currentTime - MS_PER_DAY
        todayStartMs == todayStartOf(currentTime)
        recentAlarm(e) == Gte(e.timestamp, last24h) /\ e.severity = SEVERITY_ALARM
        isDown(m) == m.status = STATUS_DOWN
        endsToday(entry) == Gte(entry.end, todayStartMs) /\ Gte(currentTime, entry.end)
    IN  [alarmsLast24h |-> Len(filter(recentAlarm, evs)),
         machinesDown |-> Len(filter(isDown, ms)),
         downtimeMinutesToday |->
             floorMinutes(sumDurations(filter(endsToday, entries)))]

\* calculateMetrics leaving out the entries that end at midnight sharp
calculateMetricsAfterMidnight(evs, ms, entries, currentTime) ==
    LET last24h == currentTime - MS_PER_DAY
        todayStartMs == todayStartOf(currentTime)
        recentAlarm(e) == Gte(e.timestamp, last24h) /\ e.severity = SEVERITY_ALARM
        isDown(m) == m.status = STATUS_DOWN
        endsToday(entry) == Gte(entry.end, todayStartMs + 1)
    IN  [alarmsLast24h |-> Len(filter(recentAlarm, evs)),
         machinesDown |-> Len(filter(isDown, ms)),
         downtimeMinutesToday |->
             floorMinutes(sumDurations(filter(endsToday, entries)))]

\* downtimeMinutesToday is floored here, so it is a number of minutes
calculateMetrics(evs, ms, entries, currentTime) ==
    LET last24h == currentTime - MS_PER_DAY
        todayStartMs == todayStartOf(currentTime)
        recentAlarm(e) == Gte(e.timestamp, last24h) /\ e.severity = SEVERITY_ALARM
        isDown(m) == m.status = STATUS_DOWN
        endsToday(entry) == Gte(entry.end, todayStartMs)
    IN  [alarmsLast24h |-> Len(filter(recentAlarm, evs)),
         machinesDown |-> Len(filter(isDown, ms)),
         downtimeMinutesToday |->
             floorMinutes(sumDurations(filter(endsToday, entries)))]

\* dateNow is the value of the Date.now() calls made during the reduction
rootReducer(state, action, dateNow) ==
    LET newEvents == eventsReducer(state.events, action, MAX_EVENTS)
        newMachines == machinesReducer(state.machines, action)
        newDowntime == downtimeReducer(state.downtimeEntries, action)
        newChecklist == checklistReducer(state.checklist, action)
        newSimulation == simulationReducer(state.simulation, action, dateNow)
        metrics == calculateMetrics(newEvents, newMachines, newDowntime, dateNow)
    IN  [events |-> newEvents,
         machines |-> newMachines,
         downtimeEntries |-> newDowntime,
         checklist |-> newChecklist,
         simulation |-> newSimulation,
         metrics |-> metrics]

\* state.js selectEventsByMachine
selectEventsByMachine(state, machineId, limit) ==
    LET ofMachine(e) == e.machineId = machineId
    IN  take(limit, filter(ofMachine, state.events))

\* ------------------------------------------------------------------------
\* Parts of the program a specification leaves idle
\* ------------------------------------------------------------------------
reducerIdle ==
    /\ appState = <<>>
    /\ lastAction = [type |-> UPDATE_METRICS]
    /\ reducedAt = null

pureIdle ==
    /\ fnName = "none"
    /\ fnInput = <<>>
    /\ fnOutput = <<>>
    /\ fnDone = FALSE

checklistIdle ==
    /\ commissioningChecklist = <<>>
    /\ localStorageChecklist = <<>>
    /\ checklistChanged = FALSE
    /\ checklistCall = [handler |-> "none"]

debounceIdle ==
    /\ timeoutId = null
    /\ timeouts = {}
    /\ filterCalls = <<>>
    /\ filterRuns = <<>>

storeIdle ==
    /\ machines = <<>>
    /\ events = <<>>
    /\ downtimeEntries = <<>>
    /\ alarmsLast24h = 0
    /\ machinesDown = 0
    /\ downtimeMinutesToday = 0
    /\ simulationRunning = FALSE
    /\ simulationInterval = null
    /\ lastSimulated = null
    /\ timers = {}
    /\ nextTimerId = 1
    /\ locationHash = <<>>
    /\ currentView = VIEW_OVERVIEW
    /\ createdEventIds = <<>>
    /\ submitted = <<>>
    /\ alertMessage = "none"
    /\ formReset = FALSE

\* ------------------------------------------------------------------------
\* The store after page load
\* ------------------------------------------------------------------------
\* the scripts have run: seed data, the view of the fragment in the address
\* bar, and the first renderCurrentView()
storeLoaded(t, hash) ==
        /\ now = t
        /\ machines = seedMachines(t)
        /\ events = seedEvents(t)
        /\ downtimeEntries = seedDowntimeEntries(t)
        /\ locationHash = hash
        /\ currentView = parseRoute(hash)
        \* the initial renderCurrentView() of the page
        /\ LET metrics == computeMetrics(events, machines, downtimeEntries, t)
           IN  IF currentView = VIEW_OVERVIEW
               THEN /\ alarmsLast24h = metrics.alarmsLast24h
                    /\ machinesDown = metrics.machinesDown
                    /\ downtimeMinutesToday = metrics.downtimeMinutesToday
               ELSE /\ alarmsLast24h = 1
                    /\ machinesDown = 1
                    /\ downtimeMinutesToday = 60 * MS_PER_MINUTE
        /\ simulationRunning = FALSE
        /\ simulationInterval = null
        /\ lastSimulated = null
        /\ timers = {}
        /\ nextTimerId = 1
        /\ createdEventIds = <<>>
        /\ submitted = <<>>
        /\ alertMessage = "none"
        /\ formReset = FALSE

pageLoad(t, hash) ==
        /\ storeLoaded(t, hash)
        /\ steps = 0
        /\ reducerIdle
        /\ pureIdle
        /\ checklistIdle
        /\ debounceIdle

Init == \E t \in LoadTimes, hash \in StoreHashes : pageLoad(t, hash)

\* arguments of the direct generateEvent calls
GenMachineIds == {1}
GenSeverities == {SEVERITY_INFO, SEVERITY_ALARM}

\* one handler of the global store runs to completion
Step(handler) ==
    /\ steps < MaxSteps
    /\ handler
    /\ steps' = steps + 1
    /\ UNCHANGED <<reducerVars, pureVars, checklistFrame, debounceVars>>

Next ==
    \/ \E machineId \in GenMachineIds, severity \in GenSeverities :
          Step(generateEvent(machineId, severity, <<"Test event">>) /\ noDialog)
    \/ \E eventId \in 1..(maxEventIdOf(events) + 1) :
          Step(acknowledgeAlarm(eventId) /\ noDialog)
    \/ \E machineId \in FormMachineIds, reason \in FormReasons, notes \in FormNotes,
          start \in FormDates, end \in FormDates :
          Step(addDowntime(machineId, reason, notes, start, end))
    \/ \E machineId \in FormMachineIds, reason \in FormReasons, notes \in FormNotes,
          start \in FormDates, end \in FormDates :
          Step(addDowntime2(machineId, reason, notes, start, end))
    \/ Step(startSimulation /\ noDialog)
    \/ Step(stopSimulation /\ noDialog)
    \/ \E handle \in timers, rolls \in [1..Len(machines) -> Rolls],
          draws \in [1..Len(machines) -> StoreUnitDraws] :
          Step(simulationTick(handle, rolls, draws) /\ noDialog)
    \/ \E hash \in StoreHashes : Step(hashchange(hash) /\ noDialog)
    \/ Step(advanceClock /\ noDialog /\
            UNCHANGED <<machines, events, downtimeEntries, metricVars, simVars,
                        routeVars, createdEventIds>>)

Spec == Init /\ [][Next]_vars

\* ------------------------------------------------------------------------
\* The router alone: the page is loaded and the fragment keeps changing
\* ------------------------------------------------------------------------
RouteHashes == {HASH_MACHINE_PREFIX, HASH_RUNBOOKS, HASH_COMMISSIONING, HASH_HELP}

\* characters typed after a route
HashTails == {<<"/">>, <<"3">>, <<"x">>, <<"/", "3">>}

\* every beginning of a route (the empty fragment and '#/' among them), every
\* route, every route with something after it, and a route in capitals
RouterHashes ==
    UNION {{SubSeq(route, 1, n) : n \in 0..Len(route)} : route \in RouteHashes}
    \cup {route \o tail : route \in RouteHashes, tail \in HashTails}
    \cup {<<"#", "/", "H", "E", "L", "P">>}

InitRouter == \E t \in LoadTimes, hash \in RouterHashes : pageLoad(t, hash)

NextRouter == \E hash \in RouterHashes : Step(hashchange(hash) /\ noDialog)

SpecRouter == InitRouter /\ [][NextRouter]_vars

\* ------------------------------------------------------------------------
\* Checklist persistence (utils.js); JSON text is a sequence of tokens
\* ------------------------------------------------------------------------
REQUIRED_CHECKLIST_SECTIONS ==
    {"Safety", "IO", "Network", "Sensors", "Throughput", "Handoff"}

seedChecklist ==
    [section \in REQUIRED_CHECKLIST_SECTIONS |->
        CASE section = "Safety" ->
                << [item |-> "Emergency stops tested", checked |-> FALSE],
                   [item |-> "Guards in place", checked |-> TRUE] >>
          [] section = "IO" ->
                << [item |-> "Inputs calibrated", checked |-> FALSE],
                   [item |-> "Outputs verified", checked |-> TRUE] >>
          [] section = "Network" ->
                << [item |-> "IP configured", checked |-> TRUE],
                   [item |-> "Connectivity tested", checked |-> FALSE] >>
          [] section = "Sensors" ->
                << [item |-> "Sensors zeroed", checked |-> FALSE],
                   [item |-> "Accuracy checked", checked |-> TRUE] >>
          [] section = "Throughput" ->
                << [item |-> "Baseline test run", checked |-> FALSE],
                   [item |-> "Target met", checked |-> TRUE] >>
          [] OTHER ->
                << [item |-> "Documentation provided", checked |-> FALSE],
                   [item |-> "Training completed", checked |-> TRUE] >>]

\* the order in which Object.keys lists the sections of the model's documents
sectionOrder ==
    <<"Safety", "IO", "Network", "Sensors", "Throughput", "Handoff", "Extra">>

objectKeys(object) == SelectSeq(sectionOrder, LAMBDA name : name \in DOMAIN object)

\* tokens of a JSON text
punctuation(mark) == [t |-> mark, s |-> ""]
stringToken(text) == [t |-> "string", s |-> text]
booleanToken(flag) == punctuation(IF flag THEN "true" ELSE "false")
numberToken(digits) == [t |-> "number", s |-> digits]
tokenAt(text, pos) == IF pos <= Len(text) THEN text[pos] ELSE punctuation("end")

\* JSON.stringify of one checklist item, had it written every flag as false
stringifyItemUnchecked(checklistItem) ==
    << punctuation("{"),
       stringToken("item"), punctuation(":"), stringToken(checklistItem.item),
       punctuation(","),
       stringToken("checked"), punctuation(":"), booleanToken(FALSE),
       punctuation("}") >>

\* JSON.stringify of one checklist item
stringifyItem(checklistItem) ==
    << punctuation("{"),
       stringToken("item"), punctuation(":"), stringToken(checklistItem.item),
       punctuation(","),
       stringToken("checked"), punctuation(":"), booleanToken(checklistItem.checked),
       punctuation("}") >>

\* JSON.stringify of the items of a section from position i on, comma-separated
RECURSIVE stringifyElements(_, _)
stringifyElements(items, i) ==
    IF i > Len(items) THEN <<>>
    ELSE stringifyItem(items[i])
         \o (IF i < Len(items) THEN <<punctuation(",")>> ELSE <<>>)
         \o stringifyElements(items, i + 1)

stringifyArray(items) ==
    <<punctuation("[")>> \o stringifyElements(items, 1) \o <<punctuation("]")>>

\* JSON.stringify of the members of a document named by keys[i..]
RECURSIVE stringifyMembers(_, _, _)
stringifyMembers(object, keys, i) ==
    IF i > Len(keys) THEN <<>>
    ELSE <<stringToken(keys[i]), punctuation(":")>>
         \o stringifyArray(object[keys[i]])
         \o (IF i < Len(keys) THEN <<punctuation(",")>> ELSE <<>>)
         \o stringifyMembers(object, keys, i + 1)

\* JSON.stringify(commissioningChecklist)
JSONstringify(object) ==
    <<punctuation("{")>>
    \o stringifyMembers(object, objectKeys(object), 1)
    \o <<punctuation("}")>>

\* JavaScript values as JSON.parse returns them, tagged with their type
jsString(text) == [type |-> "string", text |-> text]
jsBoolean(flag) == [type |-> "boolean", flag |-> flag]
jsNumber(digits) == [type |-> "number", digits |-> digits]
jsNull == [type |-> "null"]
jsArray(elements) == [type |-> "array", elements |-> elements]
jsObject(members) == [type |-> "object", members |-> members]

\* the checklist as a JavaScript value
jsValue(checklist) ==
    jsObject([section \in DOMAIN checklist |->
        jsArray([i \in 1..Len(checklist[section]) |->
            jsObject([item |-> jsString(checklist[section][i].item),
                      checked |-> jsBoolean(checklist[section][i].checked)])])])

\* the checklist a JavaScript value is, for documents whose sections are
\* arrays of objects that hold a string item and a boolean checked
asChecklist(data) ==
    [section \in DOMAIN data.members |->
        [i \in 1..Len(data.members[section].elements) |->
            [item |-> data.members[section].elements[i].members["item"].text,
             checked |-> data.members[section].elements[i].members["checked"].flag]]]

\* JSON.parse by recursive descent; a result carries the parsed value and the
\* position after it, or ok = FALSE where JSON.parse throws a SyntaxError
syntaxError == [ok |-> FALSE, value |-> jsNull, next |-> 0]
\* the one element of a singleton; the parser binds each position and each
\* parsed value through it, so that it is computed once
theOnly(singleton) == CHOOSE result \in singleton : TRUE
parsed(value, next) == [ok |-> TRUE, value |-> value, next |-> next]

RECURSIVE parseValue(_, _)
RECURSIVE parseElements(_, _, _)
RECURSIVE parseMembers(_, _, _)

\* the elements of an array after its opening bracket
parseElements(text, pos, elements) ==
    theOnly({
        IF ~element.ok
        THEN syntaxError
        ELSE CASE tokenAt(text, element.next).t = "," ->
                    parseElements(text, element.next + 1, Append(e, element.value))
               [] tokenAt(text, element.next).t = "]" ->
                    parsed(jsArray(Append(e, element.value)), element.next + 1)
               [] OTHER -> syntaxError
        : e \in {elements}, element \in {parseValue(text, pos)}})

\* the members of an object after its opening brace; a repeated key keeps its
\* last value
parseMembers(text, pos, members) ==
    theOnly({
        IF tokenAt(text, p).t # "string" \/ tokenAt(text, p + 1).t # ":" \/ ~member.ok
        THEN syntaxError
        ELSE CASE tokenAt(text, member.next).t = "," ->
                    parseMembers(text, member.next + 1,
                                 (tokenAt(text, p).s :> member.value) @@ m)
               [] tokenAt(text, member.next).t = "}" ->
                    parsed(jsObject((tokenAt(text, p).s :> member.value) @@ m),
                           member.next + 1)
               [] OTHER -> syntaxError
        : p \in {pos}, m \in {members}, member \in {parseValue(text, pos + 2)}})

\* one JSON value at pos
parseValue(text, pos) ==
    CASE tokenAt(text, pos).t = "string" -> parsed(jsString(tokenAt(text, pos).s), pos + 1)
      [] tokenAt(text, pos).t = "number" -> parsed(jsNumber(tokenAt(text, pos).s), pos + 1)
      [] tokenAt(text, pos).t = "true" -> parsed(jsBoolean(TRUE), pos + 1)
      [] tokenAt(text, pos).t = "false" -> parsed(jsBoolean(FALSE), pos + 1)
      [] tokenAt(text, pos).t = "null" -> parsed(jsNull, pos + 1)
      [] tokenAt(text, pos).t = "[" /\ tokenAt(text, pos + 1).t = "]" ->
            parsed(jsArray(<<>>), pos + 2)
      [] tokenAt(text, pos).t = "[" /\ tokenAt(text, pos + 1).t # "]" ->
            parseElements(text, pos + 1, <<>>)
      [] tokenAt(text, pos).t = "{" /\ tokenAt(text, pos + 1).t = "}" ->
            parsed(jsObject(<<>>), pos + 2)
      [] tokenAt(text, pos).t = "{" /\ tokenAt(text, pos + 1).t # "}" ->
            parseMembers(text, pos + 1, <<>>)
      [] OTHER -> syntaxError

\* JSON.parse(text): the whole text must be one value
JSONparse(text) ==
    theOnly({
        IF document.ok /\ document.next = Len(text) + 1
        THEN [ok |-> TRUE, value |-> document.value]
        ELSE [ok |-> FALSE, value |-> jsNull]
        : document \in {parseValue(text, 1)}})

\* the text saveChecklistToLocalStorage() stores under STORAGE_KEYS.CHECKLIST
saveChecklistToLocalStorage(checklist) == JSONstringify(checklist)

\* commissioningChecklist after loadChecklistFromLocalStorage(): a stored text
\* replaces the checklist, no stored text (or one that does not parse, where
\* the function throws before it assigns) leaves it
loadChecklistFromLocalStorage(saved, checklist) ==
    theOnly({IF saved # <<>> /\ document.ok THEN asChecklist(document.value) ELSE checklist
             : document \in {JSONparse(saved)}})

\* item.trim() === ''
isBlank(text) == text \in {"", " "}

\* typeof object[key], "undefined" where the value has no such property
typeOfProperty(object, key) ==
    IF object.type = "object" /\ key \in DOMAIN object.members
    THEN object.members[key].type
    ELSE "undefined"

\* one message of validateChecklistJSON: what is wrong (field) and where
validationError(section, index, field) ==
    [section |-> section, index |-> index, field |-> field]

\* typeof checklistItem.item !== 'string' || checklistItem.item.trim() === ''
invalidItemText(checklistItem) ==
    \/ typeOfProperty(checklistItem, "item") # "string"
    \/ isBlank(checklistItem.members["item"].text)

\* the messages for an item, had validation stopped at the item's first fault
itemErrorsFailFast(section, index, checklistItem) ==
    IF checklistItem.type \notin {"object", "array"}
    THEN {validationError(section, index, "object")}
    ELSE IF invalidItemText(checklistItem)
    THEN {validationError(section, index, "item")}
    ELSE IF typeOfProperty(checklistItem, "checked") # "boolean"
    THEN {validationError(section, index, "checked")}
    ELSE {}

\* the messages validateChecklistJSON pushes for the item at index (1-based)
\* of a section: typeof null and typeof [] are both 'object' in JavaScript,
\* and only null is turned away by the object check
itemErrors(section, index, checklistItem) ==
    IF checklistItem.type \notin {"object", "array"}
    THEN {validationError(section, index, "object")}
    ELSE (IF invalidItemText(checklistItem)
          THEN {validationError(section, index, "item")} ELSE {})
         \cup
         (IF typeOfProperty(checklistItem, "checked") # "boolean"
          THEN {validationError(section, index, "checked")} ELSE {})

\* the messages validateChecklistJSON pushes for one section of the document
sectionErrors(section, items) ==
    IF items.type # "array"
    THEN {validationError(section, 0, "array")}
    ELSE UNION {itemErrors(section, index, items.elements[index]) :
                    index \in 1..Len(items.elements)}

\* validateChecklistJSON(data); errors holds the messages the function pushes
validateChecklistJSON(data) ==
    IF data.type # "object"
    THEN [valid |-> FALSE, errors |-> {validationError("", 0, "format")}]
    ELSE theOnly({[valid |-> errors = {}, errors |-> errors] : errors \in {
            {validationError(section, 0, "missing") :
                section \in REQUIRED_CHECKLIST_SECTIONS \ DOMAIN data.members}
            \cup UNION {sectionErrors(section, data.members[section]) :
                            section \in DOMAIN data.members}}})

\* every item of every section unchecked
resetChecklistImmutable(checklist) ==
    [sectionName \in DOMAIN checklist |->
        [i \in 1..Len(checklist[sectionName]) |->
            spread(checklist[sectionName][i], [checked |-> FALSE])]]

\* ------------------------------------------------------------------------
\* Pure functions, applied to arguments drawn from bounded sets
\* ------------------------------------------------------------------------
\* sequences over S of length at most n
RECURSIVE SeqsUpTo(_, _)
SeqsUpTo(S, n) ==
    IF n = 0 THEN {<<>>}
    ELSE LET shorter == SeqsUpTo(S, n - 1)
         IN  shorter \cup {Append(q, x) : q \in {r \in shorter : Len(r) = n - 1}, x \in S}

\* midnight of day 2
Midnight == 2 * MS_PER_DAY

\* events as the event reducers see them: ids in any order, repeated or not
SampleEvents ==
    {[id |-> i, machineId |-> 1, timestamp |-> Midnight, severity |-> SEVERITY_INFO,
      message |-> <<"Old event">>, acknowledged |-> a] : i \in 1..3, a \in BOOLEAN}

\* events as the metrics see them: around the 24 h boundaries of the two clocks
SampleTimestamps == {Midnight - MS_PER_DAY - 1, Midnight - MS_PER_DAY,
                     Midnight - MS_PER_DAY + 2 * MS_PER_HOUR, Midnight}
TimedEvents ==
    {[id |-> 1, machineId |-> 1, timestamp |-> t, severity |-> sev,
      message |-> <<"Old event">>, acknowledged |-> FALSE] :
        t \in SampleTimestamps, sev \in {SEVERITY_ALARM, SEVERITY_WARNING}}

SampleMachines ==
    {[id |-> 1, name |-> "Machine A", status |-> st, lastHeartbeat |-> Midnight,
      healthScore |-> 95, unitsPerMin |-> 0] : st \in MACHINE_STATUS}

\* <<start, end>> of the sample downtime entries: ended before midnight, ended
\* at midnight, across midnight, whole and half minutes today, end before
\* start, unparsable start, unparsable end
SampleRanges ==
    { <<Midnight - 30 * MS_PER_MINUTE, Midnight - MS_PER_MINUTE>>,
      <<Midnight - 30 * MS_PER_MINUTE, Midnight>>,
      <<Midnight - 10 * MS_PER_MINUTE, Midnight + (MS_PER_MINUTE \div 2)>>,
      <<Midnight + MS_PER_HOUR, Midnight + MS_PER_HOUR + 10 * MS_PER_MINUTE>>,
      <<Midnight + MS_PER_HOUR, Midnight + MS_PER_HOUR + (MS_PER_MINUTE \div 2)>>,
      <<Midnight + 2 * MS_PER_HOUR, Midnight + MS_PER_HOUR>>,
      <<NaN, Midnight + MS_PER_HOUR>>,
      <<Midnight + MS_PER_HOUR, NaN>> }
SampleEntries ==
    {[id |-> 1, machineId |-> 3, start |-> r[1], end |-> r[2],
      reason |-> "Failure", notes |-> "Notes"] : r \in SampleRanges}

\* the clocks calculateMetrics is called with: midnight sharp and 02:00
SampleNows == {Midnight, Midnight + 2 * MS_PER_HOUR}

EventsReducerInputs ==
    [events : SeqsUpTo(SampleEvents, MaxLen),
     action : {createAddEventAction(2, SEVERITY_ALARM, <<"New alarm">>, Midnight + 1)}
              \cup {createAcknowledgeEventAction(i) : i \in 1..4},
     maxEvents : 1..(MaxLen + 1)]

AcknowledgeInputs ==
    [events : SeqsUpTo(SampleEvents, MaxLen), eventId : 1..4]

MetricsInputs ==
    [events : SeqsUpTo(TimedEvents, MaxLen),
     machines : SeqsUpTo(SampleMachines, MaxLen),
     downtimeEntries : {<<>>},
     now : SampleNows]
    \cup
    [events : {<<>>},
     machines : {<<>>},
     downtimeEntries : SeqsUpTo(SampleEntries, MaxLen),
     now : SampleNows]

\* <<start, end>> of the ADD_DOWNTIME actions
ActionRanges ==
    { <<MS_PER_DAY + MS_PER_HOUR, MS_PER_DAY + MS_PER_HOUR + 10 * MS_PER_MINUTE>>,
      <<MS_PER_DAY - MS_PER_HOUR, MS_PER_DAY - MS_PER_MINUTE>> }

\* downtime entries as the downtime reducers see them: ids in any order
IdentifiedEntries ==
    {[id |-> i, machineId |-> 3, start |-> Midnight, end |-> Midnight + MS_PER_HOUR,
      reason |-> "Maintenance", notes |-> "Replaced belt"] : i \in 1..3}

DowntimeReducerInputs ==
    [entries : SeqsUpTo(IdentifiedEntries, MaxLen),
     action : {createAddDowntimeAction(3, "Failure", "Notes", r[1], r[2]) :
                  r \in ActionRanges}]

AddDowntimeEntryInputs ==
    [entries : SeqsUpTo(IdentifiedEntries, MaxLen),
     machineId : FormMachineIds, reason : FormReasons, notes : FormNotes,
     startStr : FormDates, endStr : FormDates]

\* machines as simulateTick sees them: before the first tick (no unitsPerMin)
\* and after one
TickMachines ==
    {[id |-> i, name |-> "Machine A", status |-> st, lastHeartbeat |-> Midnight,
      healthScore |-> 95] : i \in 1..2, st \in MACHINE_STATUS}
    \cup
    {[id |-> 3, name |-> "Machine C", status |-> STATUS_DOWN,
      lastHeartbeat |-> Midnight - 300000, healthScore |-> 70, unitsPerMin |-> 42]}

\* the least and the greatest outcome of Math.floor(Math.random() * range)
SampleDraws == {0, MAX_UNITS_PER_MIN - MIN_UNITS_PER_MIN - 1}

SimulateTickInputs ==
    UNION {[currentMachines : {ms}, currentTime : {Midnight + 5000},
            rolls : [1..Len(ms) -> Rolls], draws : [1..Len(ms) -> SampleDraws]] :
              ms \in SeqsUpTo(TickMachines, MaxLen)}

\* checklists as the toggle functions see them: two sections, item texts
\* repeated or not
SampleItems ==
    {[item |-> text, checked |-> c] :
        text \in {"Guards in place", "Emergency stops tested"}, c \in BOOLEAN}

SampleChecklists ==
    {[section \in {"Safety", "IO"} |-> IF section = "Safety" THEN safety ELSE io] :
        safety \in SeqsUpTo(SampleItems, MaxLen), io \in SeqsUpTo(SampleItems, 1)}

ToggleInputs ==
    [checklist : SampleChecklists,
     section : {"Safety", "IO", "Nowhere"},
     itemName : {"Guards in place", "Emergency stops tested", "Test item"}]

\* well-formed checklist documents: the seed, the seed reset, and small ones
\* with empty sections, repeated texts and every mix of flags
RoundTripChecklists ==
    SampleChecklists \cup {seedChecklist, resetChecklistImmutable(seedChecklist)}

\* items as an imported document may hold them: well formed, with a flag that
\* is a string, without a flag, with a blank, empty or numeric text, with
\* both fields wrong, and values that are no objects at all
SampleJsItems ==
    {jsObject([item |-> jsString("X"), checked |-> jsBoolean(TRUE)]),
     jsObject([item |-> jsString("X"), checked |-> jsString("yes")]),
     jsObject([item |-> jsString("X")]),
     jsObject([item |-> jsString(" "), checked |-> jsBoolean(FALSE)]),
     jsObject([item |-> jsString(""), checked |-> jsBoolean(FALSE)]),
     jsObject([item |-> jsNumber("7"), checked |-> jsNull]),
     jsObject(<<>>),
     jsString("X"),
     jsNull,
     jsArray(<<>>)}

\* the sections a sample document leaves out
SampleMissing == {{}, {"IO"}, {"Network", "Handoff"}}

\* what a sample document holds under Safety besides arrays of sample items
SampleSections == {jsArray(items) : items \in SeqsUpTo(SampleJsItems, MaxLen)}
                  \cup {jsString("none"), jsObject(<<>>)}

\* arguments of validateChecklistJSON: values that are no plain objects, the
\* seed checklist, and documents with a sample Safety section, the other
\* required sections empty or left out, and at times a section of their own
ValidationInputs ==
    {jsString("string"), jsNull, jsArray(<<>>), jsValue(seedChecklist), jsObject(<<>>)}
    \cup
    {jsObject([section \in ((REQUIRED_CHECKLIST_SECTIONS \ missing) \cup extra) |->
                  CASE section = "Safety" -> safety
                    [] section = "Extra" -> jsNumber("5")
                    [] OTHER -> jsArray(<<>>)]) :
        safety \in SampleSections, missing \in SampleMissing, extra \in {{}, {"Extra"}}}

\* the later clocks of a second call: within the hour, three hours on, and
\* the next day
LaterNows(t) == {t + MS_PER_HOUR, t + 3 * MS_PER_HOUR, t + MS_PER_DAY}

\* calculateMetrics called twice at one clock and once at a later clock
MetricsClockInputs ==
    UNION {[events : SeqsUpTo(TimedEvents, MaxLen),
            machines : {<<>>, <<[id |-> 1, name |-> "Machine A",
                                 status |-> STATUS_DOWN, lastHeartbeat |-> Midnight,
                                 healthScore |-> 95, unitsPerMin |-> 0]>>},
            downtimeEntries : SeqsUpTo(SampleEntries, 1),
            now : {t},
            later : LaterNows(t)] : t \in SampleNows}

\* ------------------------------------------------------------------------
\* A tick and a user handler from one state, in both orders. The store is a
\* record of the data the handlers read and write; each handler is the
\* function it applies to that data.
\* ------------------------------------------------------------------------
\* the setInterval callback of startSimulation
tickOn(store, rolls, draws) ==
    LET tickResult == simulateTick(store.machines, now, rolls, draws)
    IN  [store EXCEPT !.machines = tickResult.machines,
                      !.events = eventsAfterGenerateAll(store.events, tickResult.events)]

\* acknowledgeAlarm acknowledging whatever event heads the list
acknowledgeAlarmAtHead(store, eventId) ==
    IF findEventIndex(store.events, eventId) # 0
    THEN LET event == store.events[1]
         IN  [store EXCEPT !.events =
                eventsAfterGenerate(acknowledgeEventImmutable(store.events, event.id),
                                    event.machineId, SEVERITY_INFO,
                                    <<"Alarm acknowledged: ">> \o event.message)]
    ELSE store

acknowledgeAlarmOn(store, eventId) ==
    IF findEventIndex(store.events, eventId) # 0
    THEN LET event == store.events[findEventIndex(store.events, eventId)]
         IN  [store EXCEPT !.events =
                eventsAfterGenerate(acknowledgeEventImmutable(store.events, eventId),
                                    event.machineId, SEVERITY_INFO,
                                    <<"Alarm acknowledged: ">> \o event.message)]
    ELSE store

\* handlers.js addDowntime (lines 54-97)
addDowntimeOn(store, machineId, reason, notes, start, end) ==
    IF \/ validateMachineId(machineId) = null
       \/ isNaN(DateGetTime(start)) \/ isNaN(DateGetTime(end))
       \/ Lte(DateGetTime(end), DateGetTime(start))
    THEN store
    ELSE [store EXCEPT !.downtimeEntries =
            entriesAfterAdd(store.downtimeEntries, validateMachineId(machineId),
                            sanitizeInput(reason), sanitizeInput(notes), start, end)]

\* handlers.js toggleChecklist (lines 376-408)
toggleChecklistOn(store, section, itemName) ==
    IF section \notin DOMAIN store.checklist THEN store
    ELSE IF \A i \in 1..Len(store.checklist[section]) :
                store.checklist[section][i].item # sanitizeInput(itemName)
    THEN store
    ELSE [store EXCEPT !.checklist =
            toggleChecklistItemImmutable(store.checklist, section,
                                         sanitizeInput(itemName))]

\* the user handler of a call
handlerOn(store, call) ==
    CASE call.handler = "acknowledgeAlarm" -> acknowledgeAlarmOn(store, call.eventId)
      [] call.handler = "addDowntime" ->
            addDowntimeOn(store, call.machineId, call.reason, call.notes,
                          call.start, call.end)
      [] call.handler = "toggleChecklist" ->
            toggleChecklistOn(store, call.section, call.itemName)

\* the seed events with n more generated on top
RECURSIVE eventsWithGenerated(_)
eventsWithGenerated(n) ==
    IF n = 0 THEN seedEvents(Midnight)
    ELSE eventsAfterGenerate(eventsWithGenerated(n - 1), 1, SEVERITY_ALARM,
                             <<"Test event">>)

\* the store after page load and after generateEvent calls, up to a full list
InterleaveStores ==
    {[machines |-> seedMachines(Midnight),
      events |-> eventsWithGenerated(n),
      downtimeEntries |-> seedDowntimeEntries(Midnight),
      checklist |-> seedChecklist] : n \in 0..(MAX_EVENTS - Len(seedEvents(Midnight)))}

\* clicks possible in a store: Ack on a listed event (0 stands for a row no
\* longer listed), the downtime form, a checklist box
InterleaveCalls(store) ==
    {[handler |-> "acknowledgeAlarm", eventId |-> eventId] :
        eventId \in Ids(store.events) \cup {0}}
    \cup {[handler |-> "addDowntime", machineId |-> 3, reason |-> "Failure",
           notes |-> " Notes ", start |-> "1970-01-02T01:00", end |-> end] :
             end \in {"", "1970-01-02T01:10"}}
    \cup {[handler |-> "toggleChecklist", section |-> section,
           itemName |-> "Guards in place"] : section \in {"Safety", "Nowhere"}}

InterleaveInputs ==
    UNION {[store : {store},
            rolls : [1..Len(store.machines) -> Rolls],
            draws : [1..Len(store.machines) -> StoreUnitDraws],
            call : InterleaveCalls(store)] : store \in InterleaveStores}

InitPure ==
    /\ storeIdle
    /\ reducerIdle
    /\ checklistIdle
    /\ debounceIdle
    /\ now = Midnight
    /\ steps = 0
    /\ fnDone = FALSE
    /\ fnOutput = <<>>
    /\ \/ fnName = "eventsReducer" /\ fnInput \in EventsReducerInputs
       \/ fnName = "addEventImmutable"
            /\ fnInput \in {i \in EventsReducerInputs : i.action.type = ADD_EVENT}
       \/ fnName = "acknowledgeEventImmutable" /\ fnInput \in AcknowledgeInputs
       \/ fnName = "calculateMetrics" /\ fnInput \in MetricsInputs
       \/ fnName = "calculateMetricsTwice" /\ fnInput \in MetricsClockInputs
       \/ fnName = "tickAndHandler" /\ fnInput \in InterleaveInputs
       \/ fnName = "downtimeReducer" /\ fnInput \in DowntimeReducerInputs
       \/ fnName = "simulateTick" /\ fnInput \in SimulateTickInputs
       \/ fnName = "checklistReducer" /\ fnInput \in ToggleInputs
       \/ fnName = "toggleChecklistItemImmutable" /\ fnInput \in ToggleInputs
       \/ fnName = "addDowntimeEntry" /\ fnInput \in AddDowntimeEntryInputs
       \/ fnName = "saveThenLoad" /\ fnInput \in RoundTripChecklists
       \/ fnName = "validateChecklistJSON" /\ fnInput \in ValidationInputs

applied(name, result) ==
    /\ fnName = name
    /\ ~fnDone
    /\ fnOutput' = result
    /\ fnDone' = TRUE
    /\ UNCHANGED <<fnName, fnInput, storeVars, reducerVars, checklistFrame,
                   debounceVars, now, steps>>

applyEventsReducer ==
    applied("eventsReducer",
            eventsReducer(fnInput.events, fnInput.action, fnInput.maxEvents))

\* createEvent followed by addEventImmutable, as generateEvent calls them
applyAddEventImmutable ==
    applied("addEventImmutable",
            addEventImmutable(fnInput.events,
                              createEvent(fnInput.events,
                                          fnInput.action.payload.machineId,
                                          fnInput.action.payload.severity,
                                          fnInput.action.payload.message,
                                          fnInput.action.payload.timestamp),
                              fnInput.maxEvents))

applyAcknowledgeEventImmutable ==
    applied("acknowledgeEventImmutable",
            acknowledgeEventImmutable(fnInput.events, fnInput.eventId))

applyCalculateMetrics ==
    applied("calculateMetrics",
            calculateMetrics(fnInput.events, fnInput.machines,
                             fnInput.downtimeEntries, fnInput.now))

\* two calls with the same arguments, then one with a later currentTime
applyCalculateMetricsTwice ==
    applied("calculateMetricsTwice",
            [first |-> calculateMetrics(fnInput.events, fnInput.machines,
                                        fnInput.downtimeEntries, fnInput.now),
             again |-> calculateMetrics(fnInput.events, fnInput.machines,
                                        fnInput.downtimeEntries, fnInput.now),
             moved |-> calculateMetrics(fnInput.events, fnInput.machines,
                                        fnInput.downtimeEntries, fnInput.later)])

\* the tick then the handler, and the handler then the tick
applyTickAndHandler ==
    applied("tickAndHandler",
            [tickFirst |->
                handlerOn(tickOn(fnInput.store, fnInput.rolls, fnInput.draws),
                          fnInput.call),
             handlerFirst |->
                tickOn(handlerOn(fnInput.store, fnInput.call),
                       fnInput.rolls, fnInput.draws)])

applyDowntimeReducer ==
    applied("downtimeReducer", downtimeReducer(fnInput.entries, fnInput.action))

\* createDowntimeEntry and the append, as addDowntimeEntry performs them
applyAddDowntimeEntry ==
    applied("addDowntimeEntry",
            entriesAfterAdd(fnInput.entries, fnInput.machineId, fnInput.reason,
                            fnInput.notes, fnInput.startStr, fnInput.endStr))

applySimulateTick ==
    applied("simulateTick",
            simulateTick(fnInput.currentMachines, fnInput.currentTime,
                         fnInput.rolls, fnInput.draws))

\* the toggle applied once and applied again to its own result
applyChecklistReducer ==
    LET action == createToggleChecklistAction(fnInput.section, fnInput.itemName)
        once == checklistReducer(fnInput.checklist, action)
    IN  applied("checklistReducer",
                [once |-> once, twice |-> checklistReducer(once, action)])

applyToggleChecklistItemImmutable ==
    LET once == toggleChecklistItemImmutable(fnInput.checklist, fnInput.section,
                                             fnInput.itemName)
    IN  applied("toggleChecklistItemImmutable",
                [once |-> once,
                 twice |-> toggleChecklistItemImmutable(once, fnInput.section,
                                                        fnInput.itemName)])

\* saveChecklistToLocalStorage() then loadChecklistFromLocalStorage() with
\* fnInput as the in-memory checklist: what JSON.parse makes of the stored
\* text, and the checklist after the load
applySaveThenLoad ==
    \E saved \in {saveChecklistToLocalStorage(fnInput)} :
        \E document \in {JSONparse(saved)} :
            applied("saveThenLoad",
                    [ok |-> document.ok,
                     parsed |-> document.value,
                     checklist |-> jsValue(fnInput),
                     loaded |-> loadChecklistFromLocalStorage(saved, fnInput)])

applyValidateChecklistJSON ==
    applied("validateChecklistJSON", validateChecklistJSON(fnInput))

NextPure ==
    \/ applySaveThenLoad
    \/ applyValidateChecklistJSON
    \/ applyEventsReducer
    \/ applyAddEventImmutable
    \/ applyAcknowledgeEventImmutable
    \/ applyCalculateMetrics
    \/ applyCalculateMetricsTwice
    \/ applyTickAndHandler
    \/ applyDowntimeReducer
    \/ applyAddDowntimeEntry
    \/ applySimulateTick
    \/ applyChecklistReducer
    \/ applyToggleChecklistItemImmutable

SpecPure == InitPure /\ [][NextPure]_vars

\* ------------------------------------------------------------------------
\* The reducer layer as a state machine: rootReducer folded over actions
\* ------------------------------------------------------------------------
\* the checklist of the reducer test
testChecklist ==
    [section \in {"Safety"} |-> << [item |-> "Test item", checked |-> FALSE] >>]

seedState(t) ==
    [events |-> seedEvents(t),
     machines |-> seedMachines(t),
     downtimeEntries |-> seedDowntimeEntries(t),
     checklist |-> seedChecklist,
     simulation |-> [running |-> FALSE, lastTick |-> null],
     metrics |-> [alarmsLast24h |-> 1, machinesDown |-> 1, downtimeMinutesToday |-> 60]]

\* an action type no reducer handles
unknownAction == [type |-> UPDATE_METRICS]

InitReducer ==
    \E t \in LoadTimes :
        /\ storeIdle
        /\ pureIdle
        /\ checklistIdle
        /\ debounceIdle
        /\ now = t
        /\ steps = 0
        /\ appState = rootReducer(seedState(t), unknownAction, t)
        /\ lastAction = unknownAction
        /\ reducedAt = t

dispatch(action) ==
    /\ steps < MaxSteps
    /\ steps' = steps + 1
    /\ appState' = rootReducer(appState, action, now)
    /\ lastAction' = action
    /\ reducedAt' = now
    /\ UNCHANGED <<storeVars, pureVars, checklistFrame, debounceVars, now>>

\* arguments of the dispatched actions
AckEventIds == {1, 3, maxEventIdOf(appState.events) + 1}
ActionMachineIds == {3, 9}
ActionStatuses == {STATUS_RUN, STATUS_DOWN}
ActionUpdates == {[healthScore |-> 50], [status |-> STATUS_DOWN, unitsPerMin |-> 42],
                  [id |-> 1]}
ActionToggles == { <<"Safety", "Guards in place">>, <<"Safety", "Test item">>,
                   <<"Nowhere", "Guards in place">> }

dispatchAddEvent ==
    \E severity \in GenSeverities :
        dispatch(createAddEventAction(1, severity, <<"Test message">>, now))

dispatchAcknowledgeEvent ==
    \E eventId \in AckEventIds : dispatch(createAcknowledgeEventAction(eventId))

dispatchUpdateMachine ==
    \E machineId \in ActionMachineIds, updates \in ActionUpdates :
        dispatch(createUpdateMachineAction(machineId, updates))

dispatchSetMachineStatus ==
    \E machineId \in ActionMachineIds, status \in ActionStatuses :
        dispatch(createSetMachineStatusAction(machineId, status))

dispatchAddDowntime ==
    \E range \in ActionRanges :
        dispatch(createAddDowntimeAction(3, "Failure", "Notes", range[1], range[2]))

dispatchStartSimulation == dispatch([type |-> START_SIMULATION])

dispatchStopSimulation == dispatch([type |-> STOP_SIMULATION])

dispatchTickSimulation == dispatch(createTickSimulationAction(now))

dispatchToggleChecklist ==
    \E toggle \in ActionToggles :
        dispatch(createToggleChecklistAction(toggle[1], toggle[2]))

dispatchLoadChecklist ==
    dispatch([type |-> LOAD_CHECKLIST, payload |-> [checklist |-> testChecklist]])

dispatchUnknown == dispatch(unknownAction)

reducerClock ==
    /\ steps < MaxSteps
    /\ steps' = steps + 1
    /\ advanceClock
    /\ UNCHANGED <<storeVars, pureVars, reducerVars, checklistFrame, debounceVars>>

NextReducer ==
    \/ dispatchAddEvent
    \/ dispatchAcknowledgeEvent
    \/ dispatchUpdateMachine
    \/ dispatchSetMachineStatus
    \/ dispatchAddDowntime
    \/ dispatchStartSimulation
    \/ dispatchStopSimulation
    \/ dispatchTickSimulation
    \/ dispatchToggleChecklist
    \/ dispatchLoadChecklist
    \/ dispatchUnknown
    \/ reducerClock

SpecReducer == InitReducer /\ [][NextReducer]_vars

\* ------------------------------------------------------------------------
\* The reducer layer and the bridge functions of the global store, fed the
\* same operations
\* ------------------------------------------------------------------------
InitBridge ==
    \E t \in LoadTimes, hash \in StoreHashes :
        /\ storeLoaded(t, hash)
        /\ steps = 0
        /\ appState = rootReducer(seedState(t), unknownAction, t)
        /\ lastAction = unknownAction
        /\ reducedAt = t
        /\ commissioningChecklist = seedChecklist
        /\ localStorageChecklist = <<>>
        /\ checklistChanged = FALSE
        /\ checklistCall = [handler |-> "none"]
        /\ pureIdle
        /\ debounceIdle

\* one operation: the action through rootReducer, the bridge function on the
\* globals
bridged(action, bridge) ==
    /\ steps < MaxSteps
    /\ steps' = steps + 1
    /\ appState' = rootReducer(appState, action, now)
    /\ lastAction' = action
    /\ reducedAt' = now
    /\ bridge
    /\ UNCHANGED <<localStorageChecklist, checklistChanged, checklistCall,
                   pureVars, debounceVars>>

\* ADD_EVENT and createEvent + addEventImmutable (generateEvent)
bridgedAddEvent ==
    \E machineId \in GenMachineIds, severity \in GenSeverities :
        bridged(createAddEventAction(machineId, severity, <<"Test event">>, now),
                /\ generateEvent(machineId, severity, <<"Test event">>)
                /\ noDialog
                /\ UNCHANGED commissioningChecklist)

\* ADD_DOWNTIME and createDowntimeEntry + append (addDowntimeEntry)
bridgedAddDowntime ==
    \E machineId \in FormMachineIds, reason \in FormReasons, notes \in FormNotes,
       start \in FormDates, end \in FormDates :
        bridged(createAddDowntimeAction(machineId, reason, notes,
                                        DateGetTime(start), DateGetTime(end)),
                /\ addDowntimeEntry(machineId, reason, notes, start, end)
                /\ noDialog
                /\ UNCHANGED commissioningChecklist)

\* TOGGLE_CHECKLIST_ITEM and toggleChecklistItemImmutable
bridgedToggle ==
    \E toggle \in ActionToggles :
        bridged(createToggleChecklistAction(toggle[1], toggle[2]),
                /\ commissioningChecklist' =
                       toggleChecklistItemImmutable(commissioningChecklist,
                                                    toggle[1], toggle[2])
                /\ UNCHANGED <<storeVars, now>>)

bridgeClock ==
    /\ steps < MaxSteps
    /\ steps' = steps + 1
    /\ advanceClock
    /\ UNCHANGED <<storeVars, reducerVars, pureVars, checklistFrame, debounceVars>>

NextBridge ==
    \/ bridgedAddEvent
    \/ bridgedAddDowntime
    \/ bridgedToggle
    \/ bridgeClock

SpecBridge == InitBridge /\ [][NextBridge]_vars

\* ------------------------------------------------------------------------
\* The commissioning checklist and its copy in localStorage
\* ------------------------------------------------------------------------
\* checklists an earlier session saved
EarlierChecklists ==
    {resetChecklistImmutable(seedChecklist),
     toggleChecklistItemImmutable(seedChecklist, "Safety", "Guards in place")}

\* what the storage key holds at page load: nothing, or an earlier save
StoredTexts == {<<>>} \cup {saveChecklistToLocalStorage(c) : c \in EarlierChecklists}

\* a checklist with a repeated item text and a section of its own
importedChecklist ==
    [section \in REQUIRED_CHECKLIST_SECTIONS \cup {"Extra"} |->
        CASE section = "Safety" ->
                << [item |-> "Guards in place", checked |-> FALSE],
                   [item |-> "Guards in place", checked |-> TRUE] >>
          [] section = "Extra" -> << [item |-> "Spare", checked |-> TRUE] >>
          [] OTHER -> <<>>]

\* a checklist whose first Safety item has a blank text
blankItemChecklist ==
    [section \in REQUIRED_CHECKLIST_SECTIONS |->
        IF section = "Safety" THEN << [item |-> " ", checked |-> FALSE] >> ELSE <<>>]

\* a checklist whose Safety item was typed with spaces around its text
paddedItemChecklist ==
    [section \in REQUIRED_CHECKLIST_SECTIONS |->
        IF section = "Safety"
        THEN << [item |-> " Guards in place ", checked |-> FALSE] >> ELSE <<>>]

\* the text of a checklist whose unchecked flags were written as "no"
flagsAsStrings(text) ==
    [i \in 1..Len(text) |->
        IF text[i] = booleanToken(FALSE) THEN stringToken("no") ELSE text[i]]

\* the file the import dialog delivers: none, two full checklists, one
\* without the required sections, one with a blank item, one with a padded
\* item, one with strings for flags, and a text cut short
ImportFiles ==
    {[selected |-> FALSE, result |-> <<>>]} \cup
    {[selected |-> TRUE, result |-> text] :
        text \in {JSONstringify(importedChecklist),
                  JSONstringify(seedChecklist),
                  JSONstringify(testChecklist),
                  JSONstringify(blankItemChecklist),
                  JSONstringify(paddedItemChecklist),
                  flagsAsStrings(JSONstringify(seedChecklist)),
                  SubSeq(JSONstringify(testChecklist), 1, 5)}}

\* arguments of the toggle handlers
ToggleSections == {"Safety", "IO", "Network", "Extra", "Nowhere"}
ToggleItemNames ==
    {"Emergency stops tested", "Guards in place", " Guards in place ",
     "Inputs calibrated", "Outputs verified", "IP configured", "Spare"}

InitChecklist ==
    /\ storeIdle
    /\ reducerIdle
    /\ pureIdle
    /\ debounceIdle
    /\ now = Midnight
    /\ steps = 0
    /\ \E saved \in StoredTexts :
        /\ localStorageChecklist = saved
        \* loadChecklistFromLocalStorage() on module load
        /\ commissioningChecklist = loadChecklistFromLocalStorage(saved, seedChecklist)
    /\ checklistChanged = FALSE
    /\ checklistCall = [handler |-> "none"]

\* one handler of the checklist runs to completion
checklistStep(call, handler) ==
    /\ steps < MaxSteps
    /\ handler
    /\ checklistCall' = call
    /\ steps' = steps + 1
    /\ UNCHANGED <<storeVars, reducerVars, pureVars, debounceVars, now>>

\* positions of the section's items whose text is itemName
positionsOf(items, itemName) == {i \in 1..Len(items) : items[i].item = itemName}

\* toggleChecklist as handlers.js defines it first
toggleChecklist(section, itemName) ==
    IF section \notin DOMAIN commissioningChecklist
    THEN UNCHANGED checklistVars
    ELSE LET sanitizedItemName == sanitizeInput(itemName)
         IN  IF positionsOf(commissioningChecklist[section], sanitizedItemName) # {}
             THEN /\ commissioningChecklist' =
                        toggleChecklistItemImmutable(commissioningChecklist, section,
                                                     sanitizedItemName)
                  /\ localStorageChecklist' =
                        saveChecklistToLocalStorage(commissioningChecklist')
                  /\ checklistChanged' = TRUE
             ELSE UNCHANGED checklistVars

\* toggleChecklist as handlers.js defines it again further down: the first
\* item with the text is flipped in place; a missing section throws before
\* anything is written
toggleChecklistWithoutSaving(section, itemName) ==
    IF section \notin DOMAIN commissioningChecklist
    THEN UNCHANGED checklistVars
    ELSE LET found == positionsOf(commissioningChecklist[section], itemName)
         IN  IF found # {}
             THEN LET first == CHOOSE i \in found : \A j \in found : i <= j
                      checklistItem == commissioningChecklist[section][first]
                  IN  /\ commissioningChecklist' =
                            [commissioningChecklist EXCEPT ![section][first] =
                                spread(checklistItem, [checked |-> ~checklistItem.checked])]
                      /\ checklistChanged' = TRUE
                      /\ UNCHANGED localStorageChecklist
             ELSE UNCHANGED checklistVars

toggleChecklist2(section, itemName) ==
    IF section \notin DOMAIN commissioningChecklist
    THEN UNCHANGED checklistVars
    ELSE LET found == positionsOf(commissioningChecklist[section], itemName)
         IN  IF found # {}
             THEN LET first == CHOOSE i \in found : \A j \in found : i <= j
                      checklistItem == commissioningChecklist[section][first]
                  IN  /\ commissioningChecklist' =
                            [commissioningChecklist EXCEPT ![section][first] =
                                spread(checklistItem, [checked |-> ~checklistItem.checked])]
                      /\ localStorageChecklist' =
                            saveChecklistToLocalStorage(commissioningChecklist')
                      /\ checklistChanged' = TRUE
             ELSE UNCHANGED checklistVars

\* resetChecklist(), with the answer given to its confirm()
resetChecklist(confirmed) ==
    IF ~confirmed
    THEN UNCHANGED checklistVars
    ELSE /\ commissioningChecklist' = resetChecklistImmutable(commissioningChecklist)
         /\ localStorageChecklist' = saveChecklistToLocalStorage(commissioningChecklist')
         /\ checklistChanged' = TRUE

\* importChecklist, had it gone ahead whatever the answer to its confirm()
importChecklistUnconfirmed(file, confirmed) ==
    IF ~file.selected
    THEN UNCHANGED checklistVars
    ELSE \E data \in {JSONparse(file.result)} :
            IF ~data.ok
            THEN UNCHANGED checklistVars
            ELSE IF ~validateChecklistJSON(data.value).valid
            THEN UNCHANGED checklistVars
            ELSE /\ commissioningChecklist' = asChecklist(data.value)
                 /\ localStorageChecklist' =
                       saveChecklistToLocalStorage(commissioningChecklist')
                 /\ checklistChanged' = TRUE

\* importChecklist(event) through to the end of reader.onload, with the
\* answer given to its confirm()
importChecklist(file, confirmed) ==
    IF ~file.selected
    THEN UNCHANGED checklistVars
    ELSE \E data \in {JSONparse(file.result)} :
            IF ~data.ok
            THEN UNCHANGED checklistVars
            ELSE IF ~validateChecklistJSON(data.value).valid
            THEN UNCHANGED checklistVars
            ELSE IF ~confirmed
            THEN UNCHANGED checklistVars
            ELSE /\ commissioningChecklist' = asChecklist(data.value)
                 /\ localStorageChecklist' =
                       saveChecklistToLocalStorage(commissioningChecklist')
                 /\ checklistChanged' = TRUE

\* the page is loaded again: data.js declares the seed checklist and utils.js
\* loads the stored one over it
reloadPage ==
    /\ commissioningChecklist' =
            loadChecklistFromLocalStorage(localStorageChecklist, seedChecklist)
    /\ UNCHANGED <<localStorageChecklist, checklistChanged>>

NextChecklist ==
    \/ \E section \in ToggleSections, itemName \in ToggleItemNames :
            checklistStep([handler |-> "toggleChecklist",
                           section |-> section, itemName |-> itemName],
                          toggleChecklist(section, itemName))
    \/ \E section \in ToggleSections, itemName \in ToggleItemNames :
            checklistStep([handler |-> "toggleChecklist",
                           section |-> section, itemName |-> itemName],
                          toggleChecklist2(section, itemName))
    \/ \E confirmed \in BOOLEAN :
            checklistStep([handler |-> "resetChecklist", confirmed |-> confirmed],
                          resetChecklist(confirmed))
    \/ \E file \in ImportFiles, confirmed \in BOOLEAN :
            checklistStep([handler |-> "importChecklist",
                           file |-> file, confirmed |-> confirmed],
                          importChecklist(file, confirmed))
    \/ checklistStep([handler |-> "reloadPage"], reloadPage)

SpecChecklist == InitChecklist /\ [][NextChecklist]_vars

\* ------------------------------------------------------------------------
\* The runbook search (handlers.js): oninput="filterRunbooks()"
\* ------------------------------------------------------------------------
\* the delay filterRunbooks is debounced by
RUNBOOK_FILTER_DELAY == 150

\* the step of the clock: the time between two keystrokes of a burst
TypingGap == 50

\* the text in the search field when filterRunbooks is called
SearchTexts == {"a", "al"}

\* the clock stops here once no timer is armed
MaxClock == Midnight + RUNBOOK_FILTER_DELAY + MaxSteps * TypingGap

InitDebounce ==
    /\ storeIdle
    /\ reducerIdle
    /\ pureIdle
    /\ checklistIdle
    /\ debounceIdle
    /\ now = Midnight
    /\ steps = 0

debounceFrame == <<storeVars, reducerVars, pureVars, checklistFrame>>

\* the function debounce(func, delay) returns, called with args: clearTimeout
\* of the timer armed last, setTimeout of a new one
debounced(args, delay) ==
    LET handle == Len(filterCalls) + 1
    IN  /\ timeouts' = {timer \in timeouts : timer.id # timeoutId}
                          \cup {[id |-> handle, due |-> now + delay, args |-> args]}
        /\ timeoutId' = handle

\* filterRunbooks as handlers.js defines it first: debounce(function, 150)
filterRunbooks(args) ==
    /\ steps < MaxSteps
    /\ debounced(args, RUNBOOK_FILTER_DELAY)
    /\ filterCalls' = Append(filterCalls, [at |-> now, args |-> args])
    /\ steps' = steps + 1
    /\ UNCHANGED <<filterRuns, now, debounceFrame>>

\* the runbook list is filtered: the run is recorded with the number of the
\* call it follows
filterRun(args, afterCall) ==
    filterRuns' = Append(filterRuns, [at |-> now, args |-> args, afterCall |-> afterCall])

\* filterRunbooks as handlers.js defines it again further down: the list is
\* filtered during the call
filterRunbooks2(args) ==
    /\ steps < MaxSteps
    /\ filterCalls' = Append(filterCalls, [at |-> now, args |-> args])
    /\ filterRun(args, Len(filterCalls'))
    /\ steps' = steps + 1
    /\ UNCHANGED <<timeoutId, timeouts, now, debounceFrame>>

\* a timer that is due fires: () => func.apply(this, args)
timeoutFires ==
    \E timer \in timeouts :
        /\ now >= timer.due
        /\ filterRun(timer.args, Len(filterCalls))
        /\ timeouts' = timeouts \ {timer}
        /\ UNCHANGED <<timeoutId, filterCalls, now, steps, debounceFrame>>

\* time passes, no further than the next timer that is due
timePasses(gap) ==
    /\ now + gap <= MaxClock \/ timeouts # {}
    /\ \A timer \in timeouts : now + gap <= timer.due
    /\ now' = now + gap
    /\ UNCHANGED <<debounceVars, steps, debounceFrame>>

NextDebounce ==
    \/ \E args \in SearchTexts : filterRunbooks(args)
    \/ \E args \in SearchTexts : filterRunbooks2(args)
    \/ timeoutFires
    \/ timePasses(TypingGap)

SpecDebounce == InitDebounce /\ [][NextDebounce]_vars

\* ------------------------------------------------------------------------
\* Properties of the pure functions (SpecPure)
\* ------------------------------------------------------------------------
addEventApplied ==
    /\ fnDone
    /\ fnName \in {"eventsReducer", "addEventImmutable"}
    /\ fnInput.action.type = ADD_EVENT

\* C1: for every events list and every ADD_EVENT action with maxEvents >= 1,
\* eventsReducer, and createEvent followed by addEventImmutable, return a list
\* of length min(oldLength + 1, maxEvents) whose first element is the new
\* event: it carries the payload, its id is the greatest existing id plus one
\* (1 when the input list is empty) and it is not acknowledged.
AddEventPrependsNewEvent ==
    addEventApplied =>
        LET old == fnInput.events
            payload == fnInput.action.payload
            new == fnOutput[1]
        IN  /\ Len(fnOutput) = IF Len(old) + 1 <= fnInput.maxEvents
                               THEN Len(old) + 1 ELSE fnInput.maxEvents
            /\ \A i \in 1..Len(old) : new.id > old[i].id
            /\ IF old = <<>> THEN new.id = 1
               ELSE \E i \in 1..Len(old) : new.id = old[i].id + 1
            /\ new.acknowledged = FALSE
            /\ new.machineId = payload.machineId
            /\ new.severity = payload.severity
            /\ new.message = payload.message
            /\ new.timestamp = payload.timestamp

\* eventsReducer met a full list whose ids are not 1..length: the result keeps
\* the length and the new event's id is past the greatest id
AddEventOnFullList ==
    /\ addEventApplied
    /\ fnName = "eventsReducer"
    /\ Len(fnInput.events) = 2
    /\ fnInput.maxEvents = 2
    /\ Ids(fnInput.events) = {1, 3}
    /\ Len(fnOutput) = 2
    /\ fnOutput[1].id = 4

acknowledgeApplied ==
    /\ fnDone
    /\ \/ fnName = "acknowledgeEventImmutable"
       \/ fnName = "eventsReducer" /\ fnInput.action.type = ACKNOWLEDGE_EVENT

acknowledgedId ==
    IF fnName = "eventsReducer" THEN fnInput.action.payload.eventId
    ELSE fnInput.eventId

\* C5: acknowledging event id X (ACKNOWLEDGE_EVENT in eventsReducer,
\* acknowledgeEventImmutable) returns a list equal to the input except that the
\* events whose id is X are acknowledged; when no event has id X the result
\* equals the input; the input is what it was before the call.
AcknowledgeChangesOnlyThatEvent ==
    acknowledgeApplied =>
        LET old == fnInput.events
        IN  /\ Len(fnOutput) = Len(old)
            /\ \A i \in 1..Len(old) :
                  /\ DOMAIN fnOutput[i] = DOMAIN old[i]
                  /\ \A field \in DOMAIN old[i] \ {"acknowledged"} :
                        fnOutput[i][field] = old[i][field]
                  /\ fnOutput[i].acknowledged =
                        (old[i].acknowledged \/ old[i].id = acknowledgedId)
            /\ (acknowledgedId \notin Ids(old)) => fnOutput = old

\* one of two unacknowledged events was acknowledged, the other was not
AcknowledgedOneOfTwo ==
    /\ acknowledgeApplied
    /\ Len(fnInput.events) = 2
    /\ \A i \in 1..2 : ~fnInput.events[i].acknowledged
    /\ fnInput.events[1].id # acknowledgedId
    /\ fnInput.events[2].id = acknowledgedId
    /\ ~fnOutput[1].acknowledged
    /\ fnOutput[2].acknowledged

metricsApplied == fnDone /\ fnName = "calculateMetrics"

\* the sum of end - start over the entries at the given indices
RECURSIVE TotalDuration(_, _)
TotalDuration(entries, indices) ==
    IF indices = {} THEN 0
    ELSE LET i == CHOOSE j \in indices : TRUE
         IN  (entries[i].end - entries[i].start)
                + TotalDuration(entries, indices \ {i})

\* C7: calculateMetrics returns alarmsLast24h = the number of events with
\* severity ALARM and timestamp >= now - 24h, machinesDown = the number of
\* machines with status DOWN, and downtimeMinutesToday = the floor of the sum
\* of (end - start) / 60000 over the entries whose end is at or after the
\* midnight of now, an entry begun before midnight counting in full and an
\* entry ended before midnight not at all (the sum is NaN when a counted
\* entry has no start); all three are 0 for empty inputs.
MetricsAsDefined ==
    metricsApplied =>
        LET evs == fnInput.events
            ms == fnInput.machines
            entries == fnInput.downtimeEntries
            midnight == CHOOSE m \in {k * MS_PER_DAY : k \in 0..4} :
                            m <= fnInput.now /\ fnInput.now < m + MS_PER_DAY
            counted == {i \in 1..Len(entries) :
                            ~isNaN(entries[i].end) /\ entries[i].end >= midnight}
            total == TotalDuration(entries, counted)
            minutes == fnOutput.downtimeMinutesToday
        IN  /\ fnOutput.alarmsLast24h =
                  Cardinality({i \in 1..Len(evs) :
                                  /\ evs[i].severity = SEVERITY_ALARM
                                  /\ evs[i].timestamp >= fnInput.now - 24 * MS_PER_HOUR})
            /\ fnOutput.machinesDown =
                  Cardinality({i \in 1..Len(ms) : ms[i].status = STATUS_DOWN})
            /\ IF \E i \in counted : isNaN(entries[i].start)
               THEN isNaN(minutes)
               ELSE /\ minutes * MS_PER_MINUTE <= total
                    /\ total < (minutes + 1) * MS_PER_MINUTE
            /\ (evs = <<>> /\ ms = <<>> /\ entries = <<>>) =>
                  fnOutput = [alarmsLast24h |-> 0, machinesDown |-> 0,
                              downtimeMinutesToday |-> 0]

\* at midnight sharp: an entry that began yesterday and ended at midnight counts
\* its 30 minutes, an entry that ended a minute earlier counts nothing
MetricsAcrossMidnight ==
    /\ metricsApplied
    /\ fnInput.now = Midnight
    /\ Len(fnInput.downtimeEntries) = 2
    /\ fnInput.downtimeEntries[1].start = Midnight - 30 * MS_PER_MINUTE
    /\ fnInput.downtimeEntries[1].end = Midnight
    /\ fnInput.downtimeEntries[2].end = Midnight - MS_PER_MINUTE
    /\ fnOutput.downtimeMinutesToday = 30

\* ------------------------------------------------------------------------
\* Properties of the global store (Spec)
\* ------------------------------------------------------------------------
seedEventIds == Ids(seedEvents(0))

\* C2: event ids are monotonic per store: every event created by generateEvent,
\* acknowledgeAlarm or a simulation tick gets an id greater than the id of every
\* event created before it, the seed events included and whether or not old
\* events have been dropped, so no two retained events share an id.
EventIdsMonotonic ==
    /\ \A i \in 1..Len(createdEventIds) :
          /\ \A j \in 1..(i - 1) : createdEventIds[j] < createdEventIds[i]
          /\ \A seedId \in seedEventIds : seedId < createdEventIds[i]
    /\ \A i, j \in 1..Len(events) : i # j => events[i].id # events[j].id

\* an event was created after the full list had dropped events
CreatedAfterDrop ==
    /\ Len(createdEventIds) > MAX_EVENTS - Len(seedEvents(0)) + 1
    /\ Len(events) = MAX_EVENTS
    /\ events[1].id = createdEventIds[Len(createdEventIds)]
    /\ events[1].id > MAX_EVENTS + 1

\* C3: the event list is bounded: in every state reachable from the seed store
\* by generateEvent, acknowledgeAlarm and simulation ticks, events.length <=
\* SIMULATION.MAX_EVENTS.
EventsBounded == Len(events) <= MAX_EVENTS

\* the list is full and a seed event has been dropped from it
EventsFullAfterDrop ==
    /\ Len(events) = MAX_EVENTS
    /\ \E seedId \in seedEventIds : seedId \notin Ids(events)

\* C4: the event list is newest-first: events are ordered from the most
\* recently created (first) to the oldest (last), so the entry dropped at the
\* cap is the oldest retained event and selectEventsByMachine returns a
\* machine's events most-recent-first.
EventsNewestFirst ==
    \A i, j \in 1..Len(events) :
        i < j => /\ events[i].id > events[j].id
                 /\ events[i].timestamp >= events[j].timestamp

\* C8: derived metrics match the data they accompany: in the global store the
\* stored machinesDown equals the number of machines whose status is DOWN, and
\* the metrics of a state returned by rootReducer equal calculateMetrics of
\* that state's events, machines and downtimeEntries.
MachinesDownMatchesMachines ==
    /\ machinesDown =
          Cardinality({i \in 1..Len(machines) : machines[i].status = STATUS_DOWN})
    /\ appState # <<>> =>
          appState.metrics =
              calculateMetrics(appState.events, appState.machines,
                               appState.downtimeEntries, reducedAt)

\* a tick has taken a second machine down while the machine view was shown
SecondMachineWentDown ==
    /\ lastSimulated # null
    /\ currentView = VIEW_MACHINE
    /\ Cardinality({i \in 1..Len(machines) : machines[i].status = STATUS_DOWN}) = 2
    /\ machinesDown = 2

addedEntry == downtimeEntries'[Len(downtimeEntries')]

\* C9: adding a downtime entry that ends at or after today's midnight and lasts
\* a whole number d of minutes raises downtimeMinutesToday by exactly d,
\* whatever entries the store already holds.
AddedDowntimeRaisesToday ==
    [][(/\ Len(downtimeEntries') = Len(downtimeEntries) + 1
        /\ ~isNaN(addedEntry.start)
        /\ ~isNaN(addedEntry.end)
        /\ addedEntry.end > addedEntry.start
        /\ addedEntry.end >= todayStartOf(now)
        /\ (addedEntry.end - addedEntry.start) % MS_PER_MINUTE = 0)
       => /\ ~isNaN(downtimeMinutesToday)
          /\ downtimeMinutesToday' =
                downtimeMinutesToday + (addedEntry.end - addedEntry.start)]_vars

EventsActions == {ADD_EVENT, ACKNOWLEDGE_EVENT}
MachinesActions == {UPDATE_MACHINE, SET_MACHINE_STATUS, TICK_SIMULATION}
DowntimeActions == {ADD_DOWNTIME}
ChecklistActions == {TOGGLE_CHECKLIST_ITEM, LOAD_CHECKLIST}
SimulationActions == {START_SIMULATION, STOP_SIMULATION, TICK_SIMULATION}

\* the slices of the state other than the given ones are what they were
onlyChanges(slices) ==
    \A slice \in {"events", "machines", "downtimeEntries", "checklist", "simulation"}
                    \ slices :
        appState'[slice] = appState[slice]

\* C6: every sub-reducer returns the slice it is given unchanged for every
\* action type it does not handle; hence under rootReducer ADD_EVENT and
\* ACKNOWLEDGE_EVENT change only events, ADD_DOWNTIME changes only
\* downtimeEntries, TOGGLE_CHECKLIST_ITEM and LOAD_CHECKLIST change only
\* checklist, and SET_MACHINE_STATUS and UPDATE_MACHINE change only machines
\* (derived metrics aside).
ReducersKeepOtherSlices ==
    [][LET type == lastAction'.type
       IN  /\ type \notin EventsActions => appState'.events = appState.events
           /\ type \notin MachinesActions => appState'.machines = appState.machines
           /\ type \notin DowntimeActions =>
                 appState'.downtimeEntries = appState.downtimeEntries
           /\ type \notin ChecklistActions => appState'.checklist = appState.checklist
           /\ type \notin SimulationActions =>
                 appState'.simulation = appState.simulation
           /\ type \in {ADD_EVENT, ACKNOWLEDGE_EVENT} => onlyChanges({"events"})
           /\ type = ADD_DOWNTIME => onlyChanges({"downtimeEntries"})
           /\ type \in {TOGGLE_CHECKLIST_ITEM, LOAD_CHECKLIST} =>
                 onlyChanges({"checklist"})
           /\ type \in {SET_MACHINE_STATUS, UPDATE_MACHINE} =>
                 onlyChanges({"machines"})]_vars

\* an ADD_EVENT has put a fourth event in front of the seed events and left
\* the seed machines, downtime entries and checklist as they were
EventAddedToSeedState ==
    /\ lastAction.type = ADD_EVENT
    /\ Len(appState.events) = 4
    /\ appState.events[1].id = 4
    /\ appState.machines = seedMachines(reducedAt)
    /\ appState.downtimeEntries = seedDowntimeEntries(reducedAt)
    /\ appState.checklist = seedChecklist

\* the last handler took a submission whose dates do not parse or whose end
\* is not after its start
invalidSubmission ==
    /\ submitted' # <<>>
    /\ LET startTime == DateGetTime(submitted'[1])
           endTime == DateGetTime(submitted'[2])
       IN  isNaN(startTime) \/ isNaN(endTime) \/ endTime <= startTime

appendsOnly(oldList, newList) ==
    /\ Len(newList) \in {Len(oldList), Len(oldList) + 1}
    /\ \A i \in 1..Len(oldList) : newList[i] = oldList[i]
    /\ Len(newList) = Len(oldList) + 1 =>
          LET new == newList[Len(newList)]
          IN  /\ \A i \in 1..Len(oldList) : new.id > oldList[i].id
              /\ IF oldList = <<>> THEN new.id = 1
                 ELSE \E i \in 1..Len(oldList) : new.id = oldList[i].id + 1

\* C12: downtimeEntries is append-only: ADD_DOWNTIME / addDowntimeEntry places
\* the new entry at the end of the list with id = max(existing ids) + 1 (1 when
\* the list is empty), and every entry once added stays in the list at the same
\* position with all of its fields unchanged.
DowntimeAppendOnly ==
    [][/\ appendsOnly(downtimeEntries, downtimeEntries')
       /\ appState # <<>> =>
             appendsOnly(appState.downtimeEntries, appState'.downtimeEntries)
       /\ (fnDone' /\ fnName \in {"downtimeReducer", "addDowntimeEntry"}) =>
             /\ appendsOnly(fnInput.entries, fnOutput')
             /\ Len(fnOutput') = Len(fnInput.entries) + 1]_vars

\* the store holds the seed entry and two added entries, in the order of adding
TwoEntriesAppended ==
    /\ Len(downtimeEntries) = 3
    /\ downtimeEntries[1] = seedDowntimeEntries(MS_PER_DAY + 45 * MS_PER_MINUTE)[1]
    /\ downtimeEntries[2].id = 2
    /\ downtimeEntries[3].id = 3
    /\ downtimeEntries[2].start # downtimeEntries[3].start

\* C13: stopping cancels the simulation: for any sequence of startSimulation
\* and stopSimulation calls, once stopSimulation has completed no tick timer
\* is left armed until startSimulation is called again, and at most one tick
\* timer is armed at any time.
StopCancelsSimulation ==
    /\ Cardinality(timers) <= 1
    /\ ~simulationRunning => timers = {}

tickApplied == fnDone /\ fnName = "simulateTick"

\* indices of the machines whose status the tick changed
changedByTick ==
    {i \in 1..Len(fnInput.currentMachines) :
        fnOutput.machines[i].status # fnInput.currentMachines[i].status}

severityOfStatus(status) ==
    CASE status = STATUS_DOWN -> SEVERITY_ALARM
      [] status = STATUS_IDLE -> SEVERITY_WARNING
      [] status = STATUS_RUN -> SEVERITY_INFO

\* C14: in a simulation tick an event is emitted for a machine if and only if
\* that machine's status changed, exactly one per changed machine (in the order
\* of the machines), carrying the machine's id and the severity of the new
\* status: DOWN gives ALARM, IDLE gives WARN, RUN gives INFO.
TickEventsFollowStatusChanges ==
    tickApplied =>
        /\ Len(fnOutput.machines) = Len(fnInput.currentMachines)
        /\ Len(fnOutput.events) = Cardinality(changedByTick)
        /\ \A i \in changedByTick :
              LET k == Cardinality({j \in changedByTick : j <= i})
              IN  /\ fnOutput.events[k].machineId = fnInput.currentMachines[i].id
                  /\ fnOutput.events[k].severity =
                        severityOfStatus(fnOutput.machines[i].status)

\* of two machines the first kept its status and the second went idle: the one
\* event is the second machine's warning
OnlySecondMachineChanged ==
    /\ tickApplied
    /\ Len(fnInput.currentMachines) = 2
    /\ changedByTick = {2}
    /\ fnInput.currentMachines[1].id # fnInput.currentMachines[2].id
    /\ fnOutput.machines[2].status = STATUS_IDLE
    /\ Len(fnOutput.events) = 1
    /\ fnOutput.events[1].machineId = fnInput.currentMachines[2].id
    /\ fnOutput.events[1].severity = SEVERITY_WARNING

\* C15: every simulation tick stamps lastHeartbeat with the tick time on every
\* machine and assigns every machine a unitsPerMin in [MIN_UNITS_PER_MIN,
\* MAX_UNITS_PER_MIN), whether or not its status changed, and changes no other
\* field of any machine (id, name, healthScore).
TickStampsEveryMachine ==
    tickApplied =>
        /\ Len(fnOutput.machines) = Len(fnInput.currentMachines)
        /\ \A i \in 1..Len(fnInput.currentMachines) :
              LET old == fnInput.currentMachines[i]
                  new == fnOutput.machines[i]
              IN  /\ new.lastHeartbeat = fnInput.currentTime
                  /\ new.unitsPerMin >= MIN_UNITS_PER_MIN
                  /\ new.unitsPerMin < MAX_UNITS_PER_MIN
                  /\ DOMAIN new = DOMAIN old \cup {"unitsPerMin"}
                  /\ \A field \in DOMAIN old \ {"lastHeartbeat", "unitsPerMin", "status"} :
                        new[field] = old[field]

\* a machine that had no unitsPerMin and kept its status got the least
\* throughput, and a machine that changed status got the greatest
TickAssignedThroughputBounds ==
    /\ tickApplied
    /\ Len(fnInput.currentMachines) = 2
    /\ changedByTick = {2}
    /\ "unitsPerMin" \notin DOMAIN fnInput.currentMachines[1]
    /\ fnOutput.machines[1].unitsPerMin = MIN_UNITS_PER_MIN
    /\ fnOutput.machines[2].unitsPerMin = MAX_UNITS_PER_MIN - 1
    /\ fnOutput.machines[1].lastHeartbeat = fnInput.currentTime

seedMachineIds == Ids(seedMachines(0))

\* the machines are the seed machines by id, each id once
sameMachineIds(ms) ==
    /\ Len(ms) = Cardinality(seedMachineIds)
    /\ Ids(ms) = seedMachineIds

\* C16: machines are never deleted and machine ids stay unique: after every
\* simulation tick and every machinesReducer action (UPDATE_MACHINE,
\* SET_MACHINE_STATUS, TICK_SIMULATION) the set of machine ids equals the
\* initial set and no two machines share an id; an action naming an id that
\* matches no machine leaves every machine unchanged.
MachineIdsStable ==
    [][/\ machines' # <<>> => sameMachineIds(machines')
       /\ appState' # <<>> =>
             /\ sameMachineIds(appState'.machines)
             /\ (/\ lastAction'.type \in {UPDATE_MACHINE, SET_MACHINE_STATUS}
                 /\ lastAction'.payload.machineId \notin Ids(appState.machines))
                => appState'.machines = appState.machines]_vars

toggleApplied ==
    fnDone /\ fnName \in {"checklistReducer", "toggleChecklistItemImmutable"}

\* positions of the named section whose item differs after one toggle
toggledPositions ==
    {i \in 1..Len(fnInput.checklist[fnInput.section]) :
        fnOutput.once[fnInput.section][i] # fnInput.checklist[fnInput.section][i]}

\* positions of the named section that hold the named item
namedPositions ==
    {i \in 1..Len(fnInput.checklist[fnInput.section]) :
        fnInput.checklist[fnInput.section][i].item = fnInput.itemName}

\* one toggle leaves the other sections, the other items of the named section
\* and the text of the named items as they were
toggleKeepsTheRest ==
    /\ DOMAIN fnOutput.once = DOMAIN fnInput.checklist
    /\ \A section \in DOMAIN fnInput.checklist \ {fnInput.section} :
          fnOutput.once[section] = fnInput.checklist[section]
    /\ fnInput.section \in DOMAIN fnInput.checklist =>
          /\ Len(fnOutput.once[fnInput.section]) = Len(fnInput.checklist[fnInput.section])
          /\ toggledPositions \subseteq namedPositions
          /\ \A i \in toggledPositions :
                fnOutput.once[fnInput.section][i] =
                    [item |-> fnInput.itemName,
                     checked |-> ~fnInput.checklist[fnInput.section][i].checked]
    /\ fnInput.section \notin DOMAIN fnInput.checklist =>
          fnOutput.once = fnInput.checklist

\* C17: toggling (section, itemName) with checklistReducer /
\* toggleChecklistItemImmutable changes the checked flag of exactly one item,
\* the named item of the named section, and leaves every other item of that
\* section and every other section unchanged; for a section that does not
\* exist the checklist is returned unchanged.
ToggleChangesExactlyOneItem ==
    toggleApplied =>
        /\ toggleKeepsTheRest
        /\ (fnInput.section \in DOMAIN fnInput.checklist /\ namedPositions # {}) =>
              Cardinality(toggledPositions) = 1

\* what the toggle does on every checklist: it flips every item of the named
\* section that carries the named text, and nothing else
ToggleFlipsEveryNamedItem ==
    toggleApplied =>
        /\ toggleKeepsTheRest
        /\ fnInput.section \in DOMAIN fnInput.checklist =>
              toggledPositions = namedPositions

\* C18: toggling the same item of the same section twice returns the checklist
\* to content equal to the original: toggle is an involution on the item's
\* checked value and on the whole checklist.
ToggleTwiceRestores ==
    toggleApplied => fnOutput.twice = fnInput.checklist

\* an unchecked item was checked by the first toggle and unchecked again by the
\* second, next to an item that stayed as it was
ToggledThereAndBack ==
    /\ toggleApplied
    /\ fnInput.section = "Safety"
    /\ Len(fnInput.checklist["Safety"]) = 2
    /\ toggledPositions = {2}
    /\ ~fnInput.checklist["Safety"][2].checked
    /\ fnOutput.once["Safety"][2].checked
    /\ ~fnOutput.twice["Safety"][2].checked
    /\ fnOutput.twice = fnInput.checklist

\* C19: once a handler (toggleChecklist, a confirmed resetChecklist, a
\* successful importChecklist) has changed the checklist, a document is stored
\* under the checklist key, and whatever document is stored there parses to
\* exactly the in-memory checklist
ChecklistPersistedAsSnapshot ==
    /\ checklistChanged => localStorageChecklist # <<>>
    /\ localStorageChecklist # <<>> =>
            \E document \in {JSONparse(localStorageChecklist)} :
                document.ok /\ document.value = jsValue(commissioningChecklist)

\* an imported checklist has been toggled and its snapshot stored
SnapshotAfterImportAndToggle ==
    /\ checklistChanged
    /\ "Extra" \in DOMAIN commissioningChecklist
    /\ commissioningChecklist["Safety"][1].checked
    /\ localStorageChecklist = JSONstringify(commissioningChecklist)

\* C20: persistence round-trips: the serialisation of a well-formed checklist
\* parses, the parsed document is the checklist again (same sections, same
\* item order, same texts and flags), and a save followed by a load leaves
\* the in-memory checklist as it was
PersistenceRoundTrips ==
    fnDone /\ fnName = "saveThenLoad" =>
        /\ fnOutput.ok
        /\ fnOutput.parsed = fnOutput.checklist
        /\ fnOutput.loaded = fnInput

\* a checklist with a checked item before an unchecked one went through a
\* save and a load
MixedFlagsSavedAndLoaded ==
    /\ fnDone
    /\ fnName = "saveThenLoad"
    /\ Len(fnInput["Safety"]) = 2
    /\ fnInput["Safety"][1].checked
    /\ ~fnInput["Safety"][2].checked

\* validateChecklistJSON has been applied to fnInput
validationApplied == fnDone /\ fnName = "validateChecklistJSON"

\* an object with a string item outside emptyTexts and a boolean checked
wellFormedItem(checklistItem, emptyTexts) ==
    /\ checklistItem.type = "object"
    /\ typeOfProperty(checklistItem, "item") = "string"
    /\ checklistItem.members["item"].text \notin emptyTexts
    /\ typeOfProperty(checklistItem, "checked") = "boolean"

\* a plain object with every required section, each section an array of
\* well-formed items
wellFormedDocument(data, emptyTexts) ==
    /\ data.type = "object"
    /\ REQUIRED_CHECKLIST_SECTIONS \subseteq DOMAIN data.members
    /\ \A section \in DOMAIN data.members :
        /\ data.members[section].type = "array"
        /\ \A i \in 1..Len(data.members[section].elements) :
            wellFormedItem(data.members[section].elements[i], emptyTexts)

\* every missing section, every section that is no array and every fault of
\* every item has its entry in errors
everyViolationListed(data, errors) ==
    /\ \A section \in REQUIRED_CHECKLIST_SECTIONS \ DOMAIN data.members :
        validationError(section, 0, "missing") \in errors
    /\ \A section \in DOMAIN data.members :
        IF data.members[section].type # "array"
        THEN validationError(section, 0, "array") \in errors
        ELSE \A i \in 1..Len(data.members[section].elements) :
                LET checklistItem == data.members[section].elements[i]
                IN  /\ ~wellFormedItem(checklistItem, {"", " "}) =>
                            \E e \in errors : e.section = section /\ e.index = i
                    /\ checklistItem.type = "object" =>
                        /\ typeOfProperty(checklistItem, "checked") # "boolean" =>
                                validationError(section, i, "checked") \in errors
                        /\ ( \/ typeOfProperty(checklistItem, "item") # "string"
                             \/ checklistItem.members["item"].text \in {"", " "} ) =>
                                validationError(section, i, "item") \in errors

\* every entry of errors names a fault the document has
everyErrorIsAViolation(data, errors) ==
    \A e \in errors :
        CASE e.field = "missing" ->
                e.section \in REQUIRED_CHECKLIST_SECTIONS \ DOMAIN data.members
          [] e.field = "array" ->
                e.section \in DOMAIN data.members
                /\ data.members[e.section].type # "array"
          [] OTHER ->
                /\ e.section \in DOMAIN data.members
                /\ data.members[e.section].type = "array"
                /\ e.index \in 1..Len(data.members[e.section].elements)
                /\ ~wellFormedItem(data.members[e.section].elements[e.index], {"", " "})

\* C21 as stated: validateChecklistJSON returns valid exactly for plain objects
\* with every required section whose sections are arrays of objects with a
\* non-empty string item and a boolean checked
ValidExactlyForNonEmptyItems ==
    validationApplied => (fnOutput.valid <=> wellFormedDocument(fnInput, {""}))

\* C21: validateChecklistJSON returns valid, with no errors, exactly for plain
\* objects with every required section whose sections are arrays of objects
\* with a string item that is not empty once trimmed and a boolean checked;
\* otherwise, for a plain object, errors has an entry for every missing
\* section, for every section that is no array and for every fault of every
\* item (section, 1-based index, field), and no entry besides
ValidationReportsEveryViolation ==
    validationApplied =>
        /\ fnOutput.valid <=> wellFormedDocument(fnInput, {"", " "})
        /\ fnOutput.valid <=> fnOutput.errors = {}
        /\ fnInput.type = "object" =>
            /\ everyViolationListed(fnInput, fnOutput.errors)
            /\ everyErrorIsAViolation(fnInput, fnOutput.errors)

\* a document without IO whose first Safety item has neither a string item
\* nor a boolean checked was validated, and all three faults are listed
ThreeFaultsListed ==
    /\ validationApplied
    /\ ~fnOutput.valid
    /\ validationError("IO", 0, "missing") \in fnOutput.errors
    /\ validationError("Safety", 1, "item") \in fnOutput.errors
    /\ validationError("Safety", 1, "checked") \in fnOutput.errors

\* the last handler was importChecklist
importRan == checklistCall'.handler = "importChecklist"

\* the import that just ran had a file that parses to a well-formed document
\* and the user's consent
importSucceeds ==
    /\ checklistCall'.file.selected
    /\ \E data \in {JSONparse(checklistCall'.file.result)} :
        data.ok /\ wellFormedDocument(data.value, {"", " "})
    /\ checklistCall'.confirmed

\* C22: an import whose file is missing, does not parse or fails validation,
\* or that the user declines, leaves the in-memory checklist and the stored
\* document as they were; an import that succeeds replaces both by the
\* imported document
ImportReplacesOnlyWhenValidated ==
    [][importRan =>
        IF importSucceeds
        THEN \E data \in {JSONparse(checklistCall'.file.result)} :
                /\ jsValue(commissioningChecklist') = data.value
                /\ \E stored \in {JSONparse(localStorageChecklist')} :
                        stored.ok /\ stored.value = data.value
        ELSE UNCHANGED <<commissioningChecklist, localStorageChecklist>>]_vars

\* a file with strings for flags was turned away after the checklist had been
\* changed and stored
MistypedImportTurnedAway ==
    /\ checklistCall.handler = "importChecklist"
    /\ checklistCall.file.selected
    /\ checklistCall.confirmed
    /\ checklistCall.file.result = flagsAsStrings(JSONstringify(seedChecklist))
    /\ checklistChanged
    /\ commissioningChecklist # seedChecklist
\* ------------------------------------------------------------------------
\* C23
\* ------------------------------------------------------------------------
\* the two clocks see the same windows: no event timestamp passes the
\* now - 24 h threshold and midnight is that of the same day
sameWindows(evs, t, later) ==
    /\ \A i \in 1..Len(evs) :
          Gte(evs[i].timestamp, t - MS_PER_DAY)
              <=> Gte(evs[i].timestamp, later - MS_PER_DAY)
    /\ todayStartOf(t) = todayStartOf(later)

routesTo(hash, view) ==
    LET machineRoute ==
            /\ Len(hash) >= Len(HASH_MACHINE_PREFIX)
            /\ \A i \in 1..Len(HASH_MACHINE_PREFIX) : hash[i] = HASH_MACHINE_PREFIX[i]
    IN  CASE view = VIEW_MACHINE -> machineRoute
          [] view = VIEW_RUNBOOKS -> hash = HASH_RUNBOOKS
          [] view = VIEW_COMMISSIONING -> hash = HASH_COMMISSIONING
          [] view = VIEW_HELP -> hash = HASH_HELP
          [] view = VIEW_OVERVIEW ->
                ~machineRoute /\ hash \notin {HASH_RUNBOOKS, HASH_COMMISSIONING, HASH_HELP}

\* C24: every fragment has exactly one view in the routing table, and after
\* page load and after every hashchange currentView is that view, one of the
\* five.
CurrentViewIsTheRouteOfTheHash ==
    /\ currentView \in VIEWS
    /\ Cardinality(VIEWS) = 5
    /\ {view \in VIEWS : routesTo(locationHash, view)} = {currentView}

\* the fragment changed from a machine page to '#/runbooks/': not a route, so
\* the overview is shown
UnknownHashShowsOverview ==
    /\ steps = 2
    /\ locationHash = HASH_RUNBOOKS \o <<"/">>
    /\ currentView = VIEW_OVERVIEW

\* ------------------------------------------------------------------------
\* C25
\* ------------------------------------------------------------------------
\* the step is acknowledgeAlarm(eventId) run to completion
acknowledged(eventId) == Step(acknowledgeAlarm(eventId) /\ noDialog)

\* the notice of the acknowledgement of events[idx] heads the new list
noticeAtHead(idx) ==
    /\ Len(events') > 0
    /\ events'[1].severity = SEVERITY_INFO
    /\ events'[1].acknowledged = FALSE
    /\ events'[1].machineId = events[idx].machineId
    /\ events'[1].message = <<"Alarm acknowledged: ">> \o events[idx].message

\* the new list holds the event with that id, acknowledged
heldAcknowledged(eventId) ==
    \E i \in 1..Len(events') :
        events'[i].id = eventId /\ events'[i].acknowledged = TRUE

nothingGenerated == events' = events /\ createdEventIds' = createdEventIds

\* C25: after acknowledgeAlarm(eventId) for an id in the events list the list
\* holds the event with that id with acknowledged = TRUE and a new
\* unacknowledged INFO event 'Alarm acknowledged: <message>' for the same
\* machine is at the head; for an id not in the list the events are unchanged
\* and no event is generated; in every reachable state, the full list included.
AcknowledgedEventStaysListed ==
    [][\A eventId \in 1..(maxEventIdOf(events) + 1) :
          acknowledged(eventId)
             => IF findEventIndex(events, eventId) # 0
                THEN /\ heldAcknowledged(eventId)
                     /\ noticeAtHead(findEventIndex(events, eventId))
                ELSE nothingGenerated]_vars

\* what holds of acknowledgeAlarm: the same, except that on a list of
\* MAX_EVENTS events the acknowledged event is gone when it was the last one
AcknowledgedEventStaysUnlessLast ==
    [][\A eventId \in 1..(maxEventIdOf(events) + 1) :
          acknowledged(eventId)
             => IF findEventIndex(events, eventId) # 0
                THEN /\ noticeAtHead(findEventIndex(events, eventId))
                     /\ heldAcknowledged(eventId)
                          <=> ~(/\ Len(events) = MAX_EVENTS
                                /\ findEventIndex(events, eventId) = MAX_EVENTS)
                ELSE nothingGenerated]_vars

\* ------------------------------------------------------------------------
\* C26
\* ------------------------------------------------------------------------
bothOrdersRan == fnDone /\ fnName = "tickAndHandler"

withoutId(event) ==
    [machineId |-> event.machineId, timestamp |-> event.timestamp,
     severity |-> event.severity, message |-> event.message,
     acknowledged |-> event.acknowledged]

\* the same events, whatever their ids and their places in the list
sameUpToIdAndPosition(listA, listB) ==
    /\ Len(listA) = Len(listB)
    /\ \A i \in 1..Len(listA) :
          Cardinality({j \in 1..Len(listA) : withoutId(listA[j]) = withoutId(listA[i])})
            = Cardinality({j \in 1..Len(listB) :
                              withoutId(listB[j]) = withoutId(listA[i])})

sameData(storeA, storeB) ==
    /\ storeA.machines = storeB.machines
    /\ storeA.downtimeEntries = storeB.downtimeEntries
    /\ storeA.checklist = storeB.checklist

\* events the tick generates in the state both orders start from
generatedByTick ==
    Len(simulateTick(fnInput.store.machines, now, fnInput.rolls, fnInput.draws).events)

\* the tick and the notice of an acknowledgement fit under the cap
nothingDropped == Len(fnInput.store.events) + generatedByTick + 1 <= MAX_EVENTS

toggleRan == checklistCall'.handler = "toggleChecklist"

\* the section exists and holds an item with the text itemName
itemPresent(section, itemName) ==
    /\ section \in DOMAIN commissioningChecklist
    /\ positionsOf(commissioningChecklist[section], itemName) # {}

\* C28: toggleChecklist(section, itemName) called with the text of an item
\* of an existing section flips the checked flag of that item and persists
\* the checklist, so that it changes nothing only when the section or the
\* item does not exist.
ToggleFlipsTheNamedItem ==
    [][(toggleRan /\ itemPresent(checklistCall'.section, checklistCall'.itemName))
        =>   /\ \A i \in positionsOf(commissioningChecklist[checklistCall'.section],
                                     checklistCall'.itemName) :
                   commissioningChecklist'[checklistCall'.section][i].checked
                     = ~commissioningChecklist[checklistCall'.section][i].checked
             /\ JSONparse(localStorageChecklist').ok
             /\ JSONparse(localStorageChecklist').value
                   = jsValue(commissioningChecklist')]_vars

\* ------------------------------------------------------------------------
\* C29
\* ------------------------------------------------------------------------
\* the sections of the document stored under the checklist key
storedSections == DOMAIN JSONparse(localStorageChecklist).value.members

\* C29: in every state reached from the seed checklist by toggleChecklist,
\* resetChecklist and importChecklist, the in-memory checklist, and the stored
\* document once one is written, hold the required sections Safety, IO,
\* Network, Sensors, Throughput and Handoff and no other section.
ExactlyTheRequiredSections ==
    commissioningChecklist # <<>> =>
        /\ DOMAIN commissioningChecklist = REQUIRED_CHECKLIST_SECTIONS
        /\ localStorageChecklist # <<>> => storedSections = REQUIRED_CHECKLIST_SECTIONS

\* what holds of the sections: none of the required ones is ever missing
EveryRequiredSectionKept ==
    commissioningChecklist # <<>> =>
        /\ REQUIRED_CHECKLIST_SECTIONS \subseteq DOMAIN commissioningChecklist
        /\ localStorageChecklist # <<>> =>
                REQUIRED_CHECKLIST_SECTIONS \subseteq storedSections

\* ------------------------------------------------------------------------
\* C30
\* ------------------------------------------------------------------------
bridgeRuns == appState # <<>> /\ commissioningChecklist # <<>>

\* C30: fed the same add-event, add-downtime and toggle-checklist operations
\* from equal data, rootReducer and the bridge functions hold equal events,
\* downtime entries and checklist after every step, and calculateMetrics of
\* that data equals computeMetrics with downtimeMinutesToday floored.
ReducerAndBridgeAgree ==
    bridgeRuns =>
        /\ appState.events = events
        /\ appState.downtimeEntries = downtimeEntries
        /\ appState.checklist = commissioningChecklist
        /\ \E metrics \in {computeMetrics(events, machines, downtimeEntries, now)} :
              calculateMetrics(appState.events, machines, appState.downtimeEntries, now)
                = [metrics EXCEPT
                     !.downtimeMinutesToday = floorMinutes(metrics.downtimeMinutesToday)]

\* an alarm added, ten minutes of downtime entered and a checked item
\* unchecked, on both sides
ThreeOperationsOnBothSides ==
    /\ bridgeRuns
    /\ steps = 3
    /\ Len(appState.events) = Len(seedEvents(now)) + 1
    /\ events[1].severity = SEVERITY_ALARM
    /\ Len(appState.downtimeEntries) = 2
    /\ downtimeEntries[2].end = Plus(downtimeEntries[2].start, 10 * MS_PER_MINUTE)
    /\ ~appState.checklist["Safety"][2].checked
    /\ ~commissioningChecklist["Safety"][2].checked

====
